---- MODULE Spec2Model ----
(***************************************************************************)
(* Record/replay of drawing-interface calls (gl-replay / swgl-replay).     *)
(*                                                                         *)
(* Three specifications share the definitions of this module:              *)
(*   Spec        the Recorder under concurrent use (threads, sink lock)    *)
(*   SpecReplay  a single-threaded recording session followed by replay    *)
(*   SpecFile    FileStream / FileRecording on the two files of a          *)
(*               recording directory                                       *)
(* The variable-length stream is modelled at the level of bytes.           *)
(***************************************************************************)
EXTENDS Integers, Sequences, FiniteSets, TLC

\* ------------------------------------------------------------------------
\* Bounds of the model.

\* Recorded invocations each thread makes under Spec.
MaxInvocations == 2
\* Recorded invocations of a session under SpecReplay.
MaxCalls == 2
\* Largest inline scalar argument (0..MaxArg stands for the scalar arguments).
MaxArg == 1
\* Longest slice argument an invocation passes.
MaxSlice == 1
\* write_call / write operations of a FileStream session under SpecFile.
MaxWrites == 3
MaxData == 8
MaxWidth == 2
MaxEntries == 6
MaxDirs == 2
MaxHeight == 2
MaxLead == 1
LongRun == 128

\* ------------------------------------------------------------------------
\* Program constants.

\* The byte align_for pads with: static PADDING: [u8; 64] = [b'P'; 64].
PaddingByte == 80
\* mem::size_of::<usize>() on the 64-bit hosts the recordings are made on.
SizeOfUsize == 8
\* mem::size_of::<Header>(): 4 + 1 + 1 + 1 + 1, #[repr(packed)].
SizeOfHeader == 8
\* The literal Header::for_call stores in Header.padding.
HeaderPadding == 80

VARIABLES
    overflow_checks,  \* the build panics on integer overflow (debug profile)
    fingerprinter,    \* Recorder.fingerprinter is Some(..)
    inner_gl,         \* the wrapped implementation G: its observable state
    mutex,            \* Recorder.call_stream's Mutex: holder and poison flag
    call_stream,      \* the sink Cs behind the mutex
    pc,               \* each thread's position inside a recorded method
    cur,              \* each thread's invocation in progress
    invoked,          \* number of invocations each thread has started
    exec_log,         \* history: invocations in the order the wrapped calls ran
    lock_log,         \* history: invocations in the order they took the lock
    phase,            \* SpecReplay: "record", "replay", "done", "panicked"
    session,          \* SpecReplay: history of the recorded invocations
    recording,        \* SpecReplay: the FileRecording handed to replay
    serial,           \* SpecReplay: Locals.serial / enumerate() index
    dispatched,       \* SpecReplay: calls the target implementation received
    failure,          \* SpecReplay: what replay printed before panicking
    fs,               \* SpecFile: the FileStream (None before create)
    disk,             \* SpecFile: the calls and variable files
    written,          \* SpecFile: history of what was handed to the stream
    opened,           \* SpecFile: what FileRecording::open has just returned
    rle_elem,         \* SpecRle: the element type T, "u8" or "u32"
    rle_data,         \* SpecRle: the slice handed to write_u8 / write_u32
    rle_buf,          \* SpecRle: the bytes handed to read_u8 / read_u32
    rle_intact,       \* SpecRle: rle_buf is the encoder's output, untouched
    rle_expanded,     \* SpecRle: what read_u8 / read_u32 returned
    rle_phase,        \* SpecRle: "input", "encoded", "decoded"
    px_block,         \* SpecPixels: the Pixels value serialized
    px_mark,          \* SpecPixels: the offset Pixels::serialize returned
    px_appended,      \* SpecPixels: a payload was written after the block
    px_read,          \* SpecPixels: what PixelsForm::deserialize returned
    px_phase,         \* SpecPixels: "start", "written", "read"
    px_addr,          \* SpecPixels: the address of the block's bytes
    px_cast,          \* SpecPixels: "words" once the bytes were taken as u32
    sw_rec,           \* SpecSwgl: the recorded rasterizer and its entries
    sw_run,           \* SpecSwgl: the replaying rasterizer and its progress
    sw_phase,         \* SpecSwgl: "record", "replay", "done", "panicked"
    dump              \* SpecDump: the dump-commands process

recVars == <<fingerprinter, inner_gl, mutex, call_stream, pc, cur, invoked,
             exec_log, lock_log>>
repVars == <<phase, session, recording, serial, dispatched, failure>>
fileVars == <<fs, disk, written, opened>>
rleVars == <<rle_elem, rle_data, rle_buf, rle_intact, rle_expanded, rle_phase>>
pxVars == <<px_block, px_mark, px_appended, px_read, px_phase, px_addr,
            px_cast>>
swVars == <<sw_rec, sw_run, sw_phase>>
vars == <<overflow_checks, recVars, repVars, fileVars, rleVars, pxVars,
          swVars, dump>>

\* ------------------------------------------------------------------------
\* Bytes.

\* raw::as_bytes of an unsigned integer of k bytes, little-endian host.
RECURSIVE LE(_, _)
LE(n, k) == IF k = 0 THEN <<>> ELSE <<n % 256>> \o LE(n \div 256, k - 1)

\* The integer whose little-endian bytes are bs.
RECURSIVE FromLE(_)
FromLE(bs) == IF bs = <<>> THEN 0 ELSE Head(bs) + 256 * FromLE(Tail(bs))

\* raw::slice_as_bytes of a slice of size-byte scalars.
SliceAsBytes(elems, size) ==
    [i \in 1..Len(elems) * size |->
        LE(elems[((i - 1) \div size) + 1], size)[((i - 1) % size) + 1]]

\* The first n elements of s.
Take(s, n) == SubSeq(s, 1, n)

\* ------------------------------------------------------------------------
\* MarkedWrite: the writing side of the variable-length stream.
\* A stream value st is [variable, ok, size_limit]: the bytes written so
\* far, whether the writer is still running (FALSE once it has panicked),
\* and FileStream.size_limit.

\* MarkedWrite::mark for FileStream: bytes_written.
Mark(st) == Len(st.variable)

\* A writer that appends and never looks at size_limit.
WriteAllUnlimited(st, bytes) ==
    IF ~st.ok \/ bytes = <<>> THEN st
    ELSE [st EXCEPT !.variable = @ \o bytes]

\* io::Write::write_all through FileStream::write: the bytes are appended,
\* bytes_written grows, and the writer panics once it exceeds size_limit.
WriteAll(st, bytes) ==
    IF ~st.ok \/ bytes = <<>> THEN st
    ELSE [st EXCEPT !.variable = @ \o bytes,
                    !.ok = Len(st.variable) + Len(bytes) <= st.size_limit]

\* (0 - mark) & (align - 1) in wrapping usize arithmetic, align a power of 2.
PaddingLength(mark, align) == (align - (mark % align)) % align

\* MarkedWrite::align_for::<T>.  `0 - self.mark()` is a usize subtraction:
\* a build with overflow checks panics on it whenever mark is not 0.
AlignFor(st, align) ==
    IF ~st.ok THEN st
    ELSE IF overflow_checks /\ Mark(st) > 0 THEN [st EXCEPT !.ok = FALSE]
    ELSE WriteAll(st, [i \in 1..PaddingLength(Mark(st), align) |-> PaddingByte])

\* MarkedWrite::marked_write_all_aligned: [st, pos], pos the offset after
\* the padding.
MarkedWriteAllAligned(st, bytes, align) ==
    LET a == AlignFor(st, align)
    IN  [st |-> WriteAll(a, bytes), pos |-> Mark(a)]

\* Serialize::serialize_seq for a simple element type of `size` bytes
\* (its alignment is its size): the count as a usize, then the block.
SerializeSeq(st, elems, size) ==
    LET count == MarkedWriteAllAligned(st, LE(Len(elems), SizeOfUsize), SizeOfUsize)
        block == MarkedWriteAllAligned(count.st, SliceAsBytes(elems, size), size)
    IN  [st |-> block.st, pos |-> count.pos]

\* The loop of the default Serialize::serialize_seq over &[&[u8]].
RECURSIVE SerializeEach(_, _)
SerializeEach(st, slices) ==
    IF slices = <<>> THEN st
    ELSE SerializeEach(SerializeSeq(st, Head(slices), 1).st, Tail(slices))

\* The default Serialize::serialize_seq, for a slice of byte slices.
SerializeSeqOfSeq(st, slices) ==
    LET count == MarkedWriteAllAligned(st, LE(Len(slices), SizeOfUsize), SizeOfUsize)
    IN  [st |-> SerializeEach(count.st, slices), pos |-> count.pos]

\* ------------------------------------------------------------------------
\* DeserializeAs: the reading side.  A loaded variable section is read at
\* position pos (bytes already consumed) of a buffer whose first byte lives
\* at memory address base.

\* var::borrow_aligned_slice::<T>, T of `size` bytes, len elements:
\* [ok, elems, addr, pos].
BorrowAlignedSlice(variable, base, pos, len, size) ==
    LET align_skip == PaddingLength(base + pos, size)
        full_size  == align_skip + size * len
    IN  IF Len(variable) - pos < full_size
        THEN [ok |-> FALSE, elems |-> <<>>, addr |-> 0, pos |-> pos]
        ELSE [ok    |-> TRUE,
              elems |-> [i \in 1..len |->
                            FromLE(SubSeq(variable,
                                          pos + align_skip + size * (i - 1) + 1,
                                          pos + align_skip + size * i))],
              addr  |-> base + pos + align_skip,
              pos   |-> pos + full_size]

\* <Seq<T> as DeserializeAs<&[T]>>::deserialize: a usize count, then the
\* elements.
DeserializeSeq(variable, base, pos, size) ==
    LET len == BorrowAlignedSlice(variable, base, pos, 1, SizeOfUsize)
    IN  IF ~len.ok THEN len
        ELSE BorrowAlignedSlice(variable, base, len.pos, len.elems[1], size)

\* replay::get_slice: deserialize at a Var's offset; slicing past the end
\* of the variable section panics, as does a failed deserialize.
GetSlice(variable, base, offset, size) ==
    IF offset > Len(variable)
    THEN [ok |-> FALSE, elems |-> <<>>, addr |-> 0, pos |-> offset]
    ELSE DeserializeSeq(variable, base, offset, size)

\* The loop of <Seq<F> as DeserializeAs<Vec<T>>>::deserialize with
\* F = Seq<u8>: n byte slices starting at pos.
RECURSIVE DeserializeEach(_, _, _, _)
DeserializeEach(variable, base, pos, n) ==
    IF n = 0 THEN [ok |-> TRUE, slices |-> <<>>]
    ELSE LET first == DeserializeSeq(variable, base, pos, 1)
         IN  IF ~first.ok THEN [ok |-> FALSE, slices |-> <<>>]
             ELSE LET rest == DeserializeEach(variable, base, first.pos, n - 1)
                  IN  [ok |-> rest.ok,
                       slices |-> IF rest.ok THEN <<first.elems>> \o rest.slices
                                  ELSE <<>>]

\* <Vec<&[u8]>>::from_call on a Var<Seq<Seq<u8>>>.
GetSlices(variable, base, offset) ==
    IF offset > Len(variable) THEN [ok |-> FALSE, slices |-> <<>>]
    ELSE LET len == BorrowAlignedSlice(variable, base, offset, 1, SizeOfUsize)
         IN  IF ~len.ok THEN [ok |-> FALSE, slices |-> <<>>]
             ELSE DeserializeEach(variable, base, len.pos, len.elems[1])

\* std::str::from_utf8 on bytes of a recorded name (names are ASCII).
IsUtf8(bytes) == \A i \in 1..Len(bytes) : bytes[i] < 128

\* ------------------------------------------------------------------------
\* The Call enum (gl-replay/src/call.rs), its variants classified by the
\* shape of their fields, by the macro the Recorder implements the method
\* with, and by the arm replay_one_with_locals gives the variant.

\* Call variants all of whose argument fields are inline scalars.
DataNone ==
    {"active_texture", "bind_buffer", "bind_texture", "bind_vertex_array",
     "clear_color", "disable", "disable_vertex_attrib_array", "enable",
     "enable_vertex_attrib_array", "gen_buffers", "gen_framebuffers",
     "gen_queries", "gen_renderbuffers", "gen_textures",
     "gen_vertex_arrays", "gen_vertex_arrays_apple", "line_width",
     "pixel_store_i", "scissor", "tex_parameter_f", "tex_parameter_i",
     "use_program", "vertex_attrib_divisor", "vertex_attrib_i_pointer",
     "vertex_attrib_pointer", "viewport", "bind_vertex_array_apple",
     "bind_renderbuffer", "bind_framebuffer", "framebuffer_texture_2d",
     "framebuffer_texture_layer", "blit_framebuffer", "hint", "is_enabled",
     "is_shader", "is_texture", "is_framebuffer", "is_renderbuffer",
     "check_frame_buffer_status", "renderbuffer_storage",
     "framebuffer_renderbuffer", "flush", "finish", "depth_mask",
     "create_program", "create_shader", "compile_shader", "attach_shader",
     "link_program", "delete_shader", "detach_shader", "clear",
     "clear_depth", "clear_stencil", "uniform_1i", "uniform_1f",
     "uniform_1ui", "uniform_2f", "uniform_2i", "uniform_2ui", "uniform_3f",
     "uniform_3i", "uniform_3ui", "uniform_4f", "uniform_4i", "uniform_4ui",
     "depth_range", "draw_elements_instanced", "blend_color", "blend_func",
     "blend_func_separate", "blend_equation", "blend_equation_separate",
     "color_mask", "cull_face", "front_face", "depth_func", "read_buffer",
     "read_pixels", "read_pixels_into_pbo", "sample_coverage",
     "polygon_offset", "begin_query", "end_query", "query_counter",
     "get_query_object_iv", "get_query_object_uiv", "get_query_object_i64v",
     "get_query_object_ui64v", "delete_program", "tex_storage_2d",
     "tex_storage_3d", "copy_image_sub_data", "generate_mipmap"}

\* Variants with one Var<Seq<T>> argument, T a 4-byte scalar (GLuint, GLint, GLenum, f32).
DataSeq4 ==
    {"get_shader_iv", "get_program_iv", "uniform_1iv", "uniform_1fv",
     "uniform_2fv", "uniform_2iv", "uniform_3fv", "uniform_3iv",
     "uniform_4iv", "uniform_4fv", "uniform_matrix_2fv",
     "uniform_matrix_3fv", "uniform_matrix_4fv", "invalidate_framebuffer",
     "invalidate_sub_framebuffer", "delete_queries", "delete_vertex_arrays",
     "delete_vertex_arrays_apple", "delete_buffers", "delete_renderbuffers",
     "delete_framebuffers", "delete_textures"}

\* Variants with one Var<Seq<u8>> argument.
DataSeq1 ==
    {"buffer_data_untyped", "tex_sub_image_3d", "get_tex_image_into_buffer"}

\* Variants with one Var<Str> argument.
DataStr ==
    {"bind_attrib_location", "get_attrib_location",
     "get_frag_data_location", "get_uniform_location"}

\* Variants with one Option<Var<Seq<u8>>> argument.
DataOptSeq1 ==
    {"tex_image_2d", "tex_image_3d"}

\* Variants with one Var<Seq<Seq<u8>>> argument.
DataSeqSeq1 ==
    {"shader_source"}

\* Variants whose last argument is a TexImageData.
DataTexImage ==
    {"tex_sub_image_2d_pbo", "tex_sub_image_3d_pbo"}

\* Variants with one Var<PixelsForm> argument.
DataPixels ==
    {"read_pixels_into_buffer"}

\* Variants with an inline scalar `returned` field.
RetScalar ==
    {"create_program", "create_shader", "get_uniform_location",
     "get_query_object_iv", "get_query_object_uiv", "get_query_object_i64v",
     "get_query_object_ui64v"}

\* Variants with a `returned: Var<Seq<GLuint>>` field.
RetSeq4 ==
    {"gen_buffers", "gen_framebuffers", "gen_queries", "gen_renderbuffers",
     "gen_textures", "gen_vertex_arrays", "gen_vertex_arrays_apple"}

\* Variants with a `returned: Var<Seq<u8>>` field.
RetSeq1 ==
    {"read_pixels"}

\* Gl methods the Recorder implements with simple_with_return_value!.
RecWithReturn ==
    {"gen_buffers", "gen_framebuffers", "gen_queries", "gen_renderbuffers",
     "gen_textures", "gen_vertex_arrays", "gen_vertex_arrays_apple",
     "create_program", "create_shader", "get_uniform_location",
     "read_pixels", "get_query_object_iv", "get_query_object_uiv",
     "get_query_object_i64v", "get_query_object_ui64v"}

\* Variants replayed through the replayer's simple! macro.
ReplaySimple ==
    {"tex_image_2d", "tex_image_3d", "tex_sub_image_3d",
     "bind_attrib_location", "delete_queries", "delete_vertex_arrays",
     "delete_vertex_arrays_apple", "delete_buffers", "delete_renderbuffers",
     "delete_framebuffers", "delete_textures", "delete_program"}

\* Variants replayed through check_returned_vector!.
ReplayVector ==
    {"gen_buffers", "gen_framebuffers", "gen_queries", "gen_renderbuffers",
     "gen_textures", "gen_vertex_arrays", "read_pixels"}

\* Variants replayed through check_return_value!.
ReplayValue ==
    {"create_program", "create_shader", "get_uniform_location"}

\* Variants replayed through check_filled_slice!.
ReplayFilled ==
    {"get_shader_iv", "get_program_iv", "uniform_4fv", "uniform_matrix_2fv",
     "uniform_matrix_3fv", "uniform_matrix_4fv"}

\* Variants whose replay arm is unimplemented!(...).
ReplayUnimplemented ==
    {"gen_vertex_arrays_apple", "get_attrib_location",
     "get_frag_data_location", "uniform_1iv", "uniform_1fv", "uniform_2fv",
     "uniform_2iv", "uniform_3fv", "uniform_3iv", "uniform_4iv",
     "invalidate_sub_framebuffer", "get_query_object_iv",
     "get_query_object_uiv", "get_query_object_i64v",
     "get_query_object_ui64v", "get_tex_image_into_buffer"}

\* The rasterizer-only operations the SWGL recorder adds (impl Swgl for
\* FileRecorder).
SwglOps ==
    {"init_default_framebuffer", "get_color_buffer", "set_texture_buffer",
     "composite"}

\* Every variant of gl_replay::Call.
Variants ==
    DataNone \cup DataSeq4 \cup DataSeq1 \cup DataStr \cup DataOptSeq1
        \cup DataSeqSeq1 \cup DataTexImage \cup DataPixels

\* The id-allocating methods.
GenMethods == RetSeq4

\* The existence queries: they return a GLboolean to the caller.
IsMethods ==
    {"is_enabled", "is_shader", "is_texture", "is_framebuffer",
     "is_renderbuffer"}

\* The method the replay arm of a variant invokes on the target.
ReplayMethod(variant) ==
    IF variant = "uniform_matrix_2fv" THEN "uniform_matrix_4fv" ELSE variant

\* Size in bytes of the elements of a variant's slice argument.
ElemSize(variant) == IF variant \in DataSeq4 THEN 4 ELSE 1

\* Size in bytes of the elements of a variant's returned vector.
RetElemSize(variant) == IF variant \in RetSeq4 THEN 4 ELSE 1

\* ------------------------------------------------------------------------
\* Invocations and the wrapped implementation.
\*
\* An invocation is what the application passes to one recorded method:
\*   variant      the method
\*   arg          its inline scalar arguments (for bind_buffer the buffer
\*                bound to PIXEL_UNPACK_BUFFER, for pixel_store_i the value
\*                of UNPACK_ROW_LENGTH, for gen_* the count n)
\*   elems        its slice or string argument
\*   slices       its slice-of-slices argument
\*   some         its Option argument is Some(elems)
\*   width, height, depth, format, ty, offset
\*                the image arguments of the tex_sub_image_*_pbo methods
\*   tag          (history) the thread that made the invocation and its
\*                number among that thread's invocations

\* Pixel formats and their bytes per pixel at type UNSIGNED_BYTE.
Formats == {"RED", "RGBA"}
PixelTypes == {"UNSIGNED_BYTE"}
\* The address the application passes as a client-memory pointer.
ClientAddress == 64

\* Contents of the slices the model passes.
ElemVals(size) == IF size = 4 THEN {258} ELSE {65}
SliceChoices(size) ==
    UNION {[1..n -> ElemVals(size)] : n \in 0..MaxSlice}

NoImage == [width |-> 0, height |-> 0, depth |-> 0, format |-> "RED",
            ty |-> "UNSIGNED_BYTE", offset |-> 0]

NoTag == [thread |-> "", n |-> 0]

Invocation(variant, arg, elems, slices, some, image) ==
    [variant |-> variant, arg |-> arg, elems |-> elems, slices |-> slices,
     some |-> some, width |-> image.width, height |-> image.height,
     depth |-> image.depth, format |-> image.format, ty |-> image.ty,
     offset |-> image.offset, tag |-> NoTag]

Images(variant) ==
    [width : 1..2, height : {1},
     depth : IF variant = "tex_sub_image_3d_pbo" THEN 1..2 ELSE {1},
     format : Formats, ty : PixelTypes, offset : {ClientAddress}]

\* The invocations of one method the model draws from.
InvocationsOf(variant) ==
    CASE variant \in DataSeq4 \cup DataSeq1 \cup DataStr ->
           {Invocation(variant, a, e, <<>>, FALSE, NoImage) :
                a \in 0..MaxArg, e \in SliceChoices(ElemSize(variant))}
      [] variant \in DataOptSeq1 \cup {"init_default_framebuffer",
                                        "set_texture_buffer"} ->
           {Invocation(variant, a, e, <<>>, TRUE, NoImage) :
                a \in 0..MaxArg, e \in SliceChoices(1)}
           \cup {Invocation(variant, a, <<>>, <<>>, FALSE, NoImage) :
                     a \in 0..MaxArg}
      [] variant \in DataSeqSeq1 ->
           {Invocation(variant, a, <<>>, s, FALSE, NoImage) :
                a \in 0..MaxArg,
                s \in UNION {[1..n -> SliceChoices(1)] : n \in 0..MaxSlice}}
      [] variant \in DataTexImage ->
           {Invocation(variant, 0, <<>>, <<>>, FALSE, i) : i \in Images(variant)}
      [] OTHER ->
           {Invocation(variant, a, <<>>, <<>>, FALSE, NoImage) : a \in 0..MaxArg}

\* gleam::gl::calculate_length for the formats above.
CalculateLength(width, height, depth, format, ty) ==
    width * height * depth * (IF format = "RGBA" THEN 4 ELSE 1)

\* The bytes std::slice::from_raw_parts(address, length) exposes: client
\* memory holds byte (a % 251) at address a.
Memory(address, length) == [i \in 1..length |-> (address + i - 1) % 251]

\* State of the wrapped implementation after construction.
InitGl == [pixel_unpack_buffer |-> 0, unpack_row_length |-> 0,
           next_id |-> 1, digest |-> 0]

\* self.inner_gl.method(args): the implementation's state after the call.
GlState(gl, inv) ==
    [pixel_unpack_buffer |->
         IF inv.variant = "bind_buffer" THEN inv.arg ELSE gl.pixel_unpack_buffer,
     unpack_row_length |->
         IF inv.variant = "pixel_store_i" THEN inv.arg ELSE gl.unpack_row_length,
     next_id |->
         IF inv.variant \in GenMethods THEN gl.next_id + inv.arg
         ELSE IF inv.variant \in {"create_program", "create_shader"}
              THEN gl.next_id + 1
         ELSE gl.next_id,
     digest |-> gl.digest + 1]

\* self.inner_gl.method(args): the value it returns, [val, vec].
GlReturn(gl, inv) ==
    CASE inv.variant \in GenMethods \cup {"get_color_buffer"} ->
           [val |-> 0, vec |-> [i \in 1..inv.arg |-> gl.next_id + i - 1]]
      [] inv.variant \in {"create_program", "create_shader"} ->
           [val |-> gl.next_id, vec |-> <<>>]
      [] inv.variant \in RetSeq1 ->
           [val |-> 0, vec |-> [i \in 1..inv.arg |-> gl.digest % 256]]
      [] inv.variant \in IsMethods ->
           [val |-> IF inv.arg < gl.next_id THEN 1 ELSE 0, vec |-> <<>>]
      [] inv.variant \in RetScalar ->
           [val |-> Len(inv.elems) + inv.arg, vec |-> <<>>]
      [] OTHER -> [val |-> 0, vec |-> <<>>]

\* Methods whose slice argument is an out-parameter (&mut [T]).
OutParamMethods ==
    {"get_shader_iv", "get_program_iv", "get_tex_image_into_buffer"}

\* self.inner_gl.method(args): the invocation with its out-parameter slice
\* as the implementation leaves it.
GlFilled(gl, inv) ==
    IF inv.variant \in OutParamMethods
    THEN [inv EXCEPT !.elems = [i \in 1..Len(inv.elems) |-> gl.next_id]]
    ELSE inv

\* ------------------------------------------------------------------------
\* The Recorder: building and appending the Call entry of an invocation.

\* FileStream.size_limit after FileStream::create.  The code's value is
\* 4 * 1024 * 1024 * 1024; the checker's integers end at 2^31 - 1, and no
\* stream of the model comes near either, so the default stands at that.
DefaultSizeLimit == 2147483647

\* The sink after construction.
InitStream(limit) ==
    [calls |-> <<>>, variable |-> <<>>, ok |-> TRUE, size_limit |-> limit]

NoData == [kind |-> "absent", off |-> 0]
NoReturned == [kind |-> "absent", val |-> 0]

\* recorder::impl_gl::tex_image_data_to_call: [st, data].
TexImageDataToCall(gl, st, inv, depth) ==
    IF gl.pixel_unpack_buffer # 0
    THEN [st |-> st, data |-> [kind |-> "offset", off |-> inv.offset]]
    ELSE IF gl.unpack_row_length # 0 /\ ~(inv.width <= gl.unpack_row_length)
    THEN [st |-> [st EXCEPT !.ok = FALSE], data |-> NoData]
    ELSE LET actual_width == IF gl.unpack_row_length # 0
                             THEN gl.unpack_row_length ELSE inv.width
             length == CalculateLength(actual_width, inv.height, depth,
                                       inv.format, inv.ty)
             slice  == SerializeSeq(st, Memory(inv.offset, length), 1)
         IN  [st |-> slice.st, data |-> [kind |-> "buf", off |-> slice.pos]]

\* Parameter::to_call on the argument of an invocation that is not an
\* inline scalar: [st, data].
ArgToCall(gl, st, inv) ==
    LET variant == inv.variant
        seq == SerializeSeq(st, inv.elems, ElemSize(variant))
    IN  CASE variant \in DataSeq4 \cup DataSeq1 \cup DataStr ->
               [st |-> seq.st, data |-> [kind |-> "var", off |-> seq.pos]]
          [] variant \in DataOptSeq1 \cup {"init_default_framebuffer",
                                            "set_texture_buffer"} ->
               IF inv.some
               THEN [st |-> seq.st, data |-> [kind |-> "some", off |-> seq.pos]]
               ELSE [st |-> st, data |-> [kind |-> "none", off |-> 0]]
          [] variant \in DataSeqSeq1 ->
               LET seqs == SerializeSeqOfSeq(st, inv.slices)
               IN  [st |-> seqs.st, data |-> [kind |-> "var", off |-> seqs.pos]]
          [] variant \in DataTexImage ->
               \* tex_sub_image_2d_pbo passes a depth of 1
               TexImageDataToCall(gl, st, inv,
                                  IF variant = "tex_sub_image_3d_pbo"
                                  THEN inv.depth ELSE 1)
          [] OTHER -> [st |-> st, data |-> NoData]

\* The `returned` field simple_with_return_value! (and get_color_buffer)
\* gives the Call: [st, returned].
ReturnedToCall(st, variant, ret) ==
    CASE variant \in (RecWithReturn \cap (RetSeq4 \cup RetSeq1))
                         \cup {"get_color_buffer"} ->
           LET seq == SerializeSeq(st, ret.vec, RetElemSize(variant))
           IN  [st |-> seq.st, returned |-> [kind |-> "var", val |-> seq.pos]]
      [] variant \in RecWithReturn \cap RetScalar ->
           [st |-> st, returned |-> [kind |-> "scalar", val |-> ret.val]]
      [] OTHER -> [st |-> st, returned |-> NoReturned]

\* The Call value of an invocation whose arguments went into the stream
\* as a = [st, data]: the return value follows them.
CallWithReturned(inv, ret, a) ==
    LET r == ReturnedToCall(a.st, inv.variant, ret)
    IN  [st   |-> r.st,
         call |-> [variant |-> inv.variant, arg |-> inv.arg,
                   width |-> inv.width, height |-> inv.height,
                   depth |-> inv.depth, format |-> inv.format, ty |-> inv.ty,
                   data |-> a.data, returned |-> r.returned,
                   tag |-> inv.tag]]

\* The Call value a recorded method builds: arguments first, then the
\* return value: [st, call].
BuildCall(gl, st, inv, ret) ==
    CallWithReturned(inv, ret, ArgToCall(gl, st, inv))

\* A sink that stores every entry twice.
WriteCallTwice(st, call, io_ok) ==
    IF ~st.ok THEN st
    ELSE IF ~io_ok THEN [st EXCEPT !.ok = FALSE]
    ELSE [st EXCEPT !.calls = Append(Append(@, call), call)]

\* A sink that puts every entry in front of the earlier ones.
WriteCallAtFront(st, call, io_ok) ==
    IF ~st.ok THEN st
    ELSE IF ~io_ok THEN [st EXCEPT !.ok = FALSE]
    ELSE [st EXCEPT !.calls = <<call>> \o @]

\* check!(call_stream.write_call(call)): the entry is appended, or the
\* write fails and check! panics.
WriteCall(st, call, io_ok) ==
    IF ~st.ok THEN st
    ELSE IF ~io_ok THEN [st EXCEPT !.ok = FALSE]
    ELSE [st EXCEPT !.calls = Append(@, call)]

\* The body of a recorded method (simple!, simple_with_return_value! and
\* the hand-written bodies), run with the sink locked.
RecordBody(gl, st, inv, ret, io_ok) ==
    LET b == BuildCall(gl, st, inv, ret)
    IN  WriteCall(b.st, b.call, io_ok)

\* call_stream.flush().expect(..)
Flush(st, io_ok) == IF st.ok /\ ~io_ok THEN [st EXCEPT !.ok = FALSE] ELSE st

\* swgl_replay::fingerprinter: append Call::fingerprint(fingerprint(swgl)).
Fingerprinter(gl, st, io_ok) ==
    WriteCall(st,
              [variant |-> "fingerprint", arg |-> gl.digest,
               width |-> 0, height |-> 0, depth |-> 0, format |-> "RED",
               ty |-> "UNSIGNED_BYTE", data |-> NoData,
               returned |-> NoReturned, tag |-> NoTag],
              io_ok)

\* ------------------------------------------------------------------------
\* Replay (gl-replay/src/replay.rs).

\* The kind of arm replay_one_with_locals has for a variant.
ReplayKind(variant) ==
    CASE variant \in ReplayUnimplemented -> "unimplemented"
      [] variant \in ReplayVector -> "vector"
      [] variant \in ReplayValue -> "value"
      [] variant \in ReplayFilled -> "filled"
      [] variant \in ReplaySimple -> "simple"
      [] OTHER -> "direct"

\* What the target implementation can answer, relative to the recorded
\* answer: the same, a different number of values, or different values.
Outcomes(variant) ==
    CASE ReplayKind(variant) = "vector" -> {"same", "count", "value"}
      [] ReplayKind(variant) \in {"value", "filled"} -> {"same", "value"}
      [] OTHER -> {"same"}

\* The target's vector answer under an outcome.
TargetVector(expected, outcome) ==
    CASE outcome = "count" -> Append(expected, 0)
      [] outcome = "value" -> [i \in 1..Len(expected) |-> expected[i] + 1]
      [] OTHER -> expected

\* The target's scalar answer under an outcome.
TargetValue(expected, outcome) ==
    IF outcome = "same" THEN expected ELSE expected + 1

FromCallNothing(call, slice, s) ==
    [ok |-> TRUE, elems |-> <<>>, slices |-> <<>>, some |-> FALSE,
     offset |-> 0]

\* get_parameter / from_call / call_to_tex_image_data_offset on the
\* non-scalar argument of a stored call: [ok, elems, slices, some, offset];
\* slice is what get_slice finds at the stored offset, s what
\* Vec::from_call finds there.
FromCall(call, slice, s) ==
    LET kind  == call.data.kind
        none  == [ok |-> TRUE, elems |-> <<>>, slices |-> <<>>,
                  some |-> FALSE, offset |-> 0]
    IN  CASE kind = "var" /\ call.variant \in DataSeqSeq1 ->
               [none EXCEPT !.ok = s.ok, !.slices = s.slices]
          [] kind = "var" /\ call.variant \in DataStr ->
               [none EXCEPT !.ok = slice.ok /\ IsUtf8(slice.elems),
                            !.elems = slice.elems]
          [] kind = "var" /\ call.variant \notin DataSeqSeq1 \cup DataStr ->
               [none EXCEPT !.ok = slice.ok, !.elems = slice.elems]
          [] kind = "some" ->
               [none EXCEPT !.ok = slice.ok, !.elems = slice.elems,
                            !.some = TRUE]
          [] kind = "buf" ->
               [none EXCEPT !.ok = slice.ok, !.elems = slice.elems,
                            !.offset = slice.addr]
          [] kind = "offset" -> [none EXCEPT !.offset = call.data.off]
          [] OTHER -> none

\* The non-scalar argument of a stored call, decoded from the loaded
\* variable section: as a slice, or as a vector of byte slices.
DecodeArg(rec, call) ==
    FromCall(call,
             GetSlice(rec.variable, rec.base, call.data.off,
                      ElemSize(call.variant)),
             GetSlices(rec.variable, rec.base, call.data.off))

\* A replayer that numbers the stored calls from 1.
SentCountingFromOne(serial_no, call, a, answer) ==
    [serial |-> serial_no + 1, method |-> ReplayMethod(call.variant),
     arg |-> call.arg, elems |-> a.elems, slices |-> a.slices,
     some |-> a.some, width |-> call.width, height |-> call.height,
     depth |-> call.depth, format |-> call.format, ty |-> call.ty,
     offset |-> a.offset, answer |-> answer]

\* The call the target receives for a stored call whose argument decoded
\* to a, and (history) what the target answered.
Sent(serial_no, call, a, answer) ==
    [serial |-> serial_no, method |-> ReplayMethod(call.variant),
     arg |-> call.arg, elems |-> a.elems, slices |-> a.slices,
     some |-> a.some, width |-> call.width, height |-> call.height,
     depth |-> call.depth, format |-> call.format, ty |-> call.ty,
     offset |-> a.offset, answer |-> answer]

NoFailure == [kind |-> "none", method |-> "", serial |-> 0]

\* expected != actual in check_return_value!.
ValueDiffers(expected, actual) == expected # actual

\* A comparison that looks at the number of values only.
VectorDiffersInLength(expected, actual) == Len(expected) # Len(actual)

\* expected != &actual[..] in check_returned_vector! and
\* check_filled_slice!.
VectorDiffers(expected, actual) == expected # actual

\* What the check_* macros print before panicking.
Mismatch(call, serial_no) ==
    [kind |-> "mismatch", method |-> ReplayMethod(call.variant),
     serial |-> serial_no]

\* An arm of replay_one_with_locals, of the given kind: a is the decoded
\* argument of the stored call, ret its decoded `returned` vector.
ReplayArm(serial_no, call, outcome, kind, a, ret) ==
    LET answer == CASE kind = "vector" /\ ret.ok ->
                         [val |-> 0, vec |-> TargetVector(ret.elems, outcome)]
                    [] kind = "value" ->
                         [val |-> TargetValue(call.returned.val, outcome),
                          vec |-> <<>>]
                    [] kind = "filled" ->
                         [val |-> 0, vec |-> TargetVector(a.elems, outcome)]
                    [] OTHER -> [val |-> 0, vec |-> <<>>]
        sent == Sent(serial_no, call, a, answer)
        bad  == [kind |-> "deserialize", method |-> call.variant,
                 serial |-> serial_no]
    IN  CASE kind = "unimplemented" ->
               [panic |-> TRUE, dispatch |-> FALSE, sent |-> sent,
                failure |-> [kind |-> "unimplemented",
                             method |-> call.variant, serial |-> serial_no]]
          [] kind = "vector" ->
               \* the target is called before `returned` is decoded
               IF ~ret.ok
               THEN [panic |-> TRUE, dispatch |-> TRUE, sent |-> sent,
                     failure |-> bad]
               ELSE LET differs == VectorDiffers(ret.elems, answer.vec)
                    IN  [panic |-> differs, dispatch |-> TRUE, sent |-> sent,
                         failure |-> IF differs THEN Mismatch(call, serial_no)
                                     ELSE NoFailure]
          [] kind = "value" ->
               IF ~a.ok
               THEN [panic |-> TRUE, dispatch |-> FALSE, sent |-> sent,
                     failure |-> bad]
               ELSE LET differs == ValueDiffers(call.returned.val, answer.val)
                    IN  [panic |-> differs, dispatch |-> TRUE, sent |-> sent,
                         failure |-> IF differs THEN Mismatch(call, serial_no)
                                     ELSE NoFailure]
          [] kind = "filled" ->
               IF ~a.ok
               THEN [panic |-> TRUE, dispatch |-> FALSE, sent |-> sent,
                     failure |-> bad]
               ELSE LET differs == VectorDiffers(a.elems, answer.vec)
                    IN  [panic |-> differs, dispatch |-> TRUE, sent |-> sent,
                         failure |-> IF differs THEN Mismatch(call, serial_no)
                                     ELSE NoFailure]
          [] OTHER ->
               IF ~a.ok
               THEN [panic |-> TRUE, dispatch |-> FALSE, sent |-> sent,
                     failure |-> bad]
               ELSE [panic |-> FALSE, dispatch |-> TRUE, sent |-> sent,
                     failure |-> NoFailure]

\* replay_one_with_locals: [panic, dispatch, sent, failure], for the stored
\* call `call` at serial serial_no, the target answering with `outcome`.
ReplayOneWithLocals(rec, serial_no, call, outcome) ==
    ReplayArm(serial_no, call, outcome, ReplayKind(call.variant),
              DecodeArg(rec, call),
              IF call.returned.kind = "var"
              THEN GetSlice(rec.variable, rec.base, call.returned.val,
                            RetElemSize(call.variant))
              ELSE [ok |-> TRUE, elems |-> <<>>, addr |-> 0, pos |-> 0])

\* ------------------------------------------------------------------------
\* Values the variables of a specification hold while the part of the
\* program they belong to is not running.

Threads == {"A", "B"}

NoInvocation == Invocation("", 0, <<>>, <<>>, FALSE, NoImage)
NoCur == [inv |-> NoInvocation, ret |-> [val |-> 0, vec |-> <<>>]]
NoRecording == [calls |-> <<>>, variable |-> <<>>, base |-> 0]

IdleRecorder ==
    /\ fingerprinter = FALSE
    /\ mutex = [holder |-> "", poisoned |-> FALSE]
    /\ pc = [t \in Threads |-> "idle"]
    /\ cur = [t \in Threads |-> NoCur]
    /\ invoked = [t \in Threads |-> 0]
    /\ exec_log = <<>>
    /\ lock_log = <<>>

IdleReplay ==
    /\ phase = "off"
    /\ session = <<>>
    /\ recording = NoRecording
    /\ serial = 0
    /\ dispatched = <<>>
    /\ failure = NoFailure

\* A build of the program: the word size and the size and alignment of
\* the Call type it is compiled with.
NoBuild == [usize |-> 0, call_size |-> 0, call_align |-> 0]
NoHeader == [magic |-> 0, size_of_usize |-> 0, size_of_call |-> 0,
             max_alignment |-> 0, padding |-> 0]
NoStream == [created |-> FALSE, build |-> NoBuild, magic |-> 0,
             calls_bytes |-> <<>>, variable |-> <<>>, ok |-> TRUE,
             size_limit |-> 0, call_serial |-> 0]
NoDisk == [exists |-> FALSE, calls |-> <<>>, variable |-> <<>>]
NoWritten == [calls |-> <<>>, returns |-> <<>>, ops |-> 0, synced |-> FALSE]
NoOpened == [status |-> "none", header_ok |-> FALSE, expected |-> NoHeader,
             actual |-> NoHeader, stored |-> <<>>, calls |-> <<>>,
             variable |-> <<>>, build |-> NoBuild, magic |-> 0]

IdleFile ==
    /\ fs = NoStream
    /\ disk = NoDisk
    /\ written = NoWritten
    /\ opened = NoOpened

\* A rasterizer: the contents of its texture buffers, and state held
\* outside them (here the program in use).
InitSwgl == [textures |-> 0, program |-> 0]
NoRec == [swgl |-> InitSwgl, entries |-> <<>>]
NoRun == [swgl |-> InitSwgl, serial |-> 0, differs_at |-> -1, failed_at |-> -1]

NoDump == [build |-> NoBuild, args |-> <<>>, next |-> 0, pos |-> 0,
           out |-> <<>>, phase |-> "off"]

IdleDump == dump = NoDump

IdleSwgl ==
    /\ sw_rec = NoRec
    /\ sw_run = NoRun
    /\ sw_phase = "off"

NoExpanded == [status |-> "none", bytes |-> <<>>]

IdleRle ==
    /\ rle_elem = "u8"
    /\ rle_data = <<>>
    /\ rle_buf = <<>>
    /\ rle_intact = FALSE
    /\ rle_expanded = NoExpanded
    /\ rle_phase = "off"

NoPixels == [width |-> 0, height |-> 0, depth |-> 0, format |-> 0,
             pixel_type |-> 0, bytes |-> <<>>]
NoRead == [status |-> "none", pixels |-> NoPixels]

IdlePixels ==
    /\ px_block = NoPixels
    /\ px_mark = 0
    /\ px_appended = FALSE
    /\ px_read = NoRead
    /\ px_phase = "off"
    /\ px_addr = 0
    /\ px_cast = "none"

\* ------------------------------------------------------------------------
\* Spec: threads invoke recorded methods on one Recorder.  A recorded
\* method is the general! macro: the wrapped call, then
\* call_stream.lock().unwrap(), the body, the flush, the fingerprinter,
\* and the release of the guard on return.

\* The methods the threads draw their invocations from: Gl methods
\* recorded by simple! and simple_with_return_value!, and the SWGL
\* operations.
ThreadMethods == {"clear", "gen_buffers"} \cup SwglOps

\* The invocations of a method the threads draw from: the largest scalar
\* argument, and a buffer of the greatest length where one is passed.
ThreadInvocations(variant) ==
    {inv \in InvocationsOf(variant) :
         /\ inv.arg = MaxArg
         /\ variant \in {"init_default_framebuffer", "set_texture_buffer"}
                => inv.some /\ Len(inv.elems) = MaxSlice}

\* Whether the general! macro a method is implemented with runs the
\* fingerprinter: gl-replay's does, the SWGL recorder's own does not.
RunsFingerprinter(variant) == variant \notin SwglOps

\* What the file system may do to the writes of one recorded method.
IoOutcomes == {"ok", "write_call fails", "flush fails"}

Init ==
    /\ overflow_checks \in BOOLEAN
    /\ fingerprinter \in BOOLEAN
    /\ inner_gl = InitGl
    /\ call_stream = InitStream(DefaultSizeLimit)
    /\ mutex = [holder |-> "", poisoned |-> FALSE]
    /\ pc = [t \in Threads |-> "idle"]
    /\ cur = [t \in Threads |-> NoCur]
    /\ invoked = [t \in Threads |-> 0]
    /\ exec_log = <<>>
    /\ lock_log = <<>>
    /\ IdleReplay
    /\ IdleFile
    /\ IdleDump
    /\ IdleSwgl
    /\ IdleRle
    /\ IdlePixels

\* let returned = self.inner_gl.method(args): the wrapped call runs
\* before the lock is taken.
InnerCall(t) ==
    /\ pc[t] = "idle"
    /\ invoked[t] < MaxInvocations
    /\ \E variant \in ThreadMethods : \E choice \in ThreadInvocations(variant) :
         LET inv == [choice EXCEPT !.tag = [thread |-> t, n |-> invoked[t] + 1]]
         IN  /\ cur' = [cur EXCEPT ![t] = [inv |-> GlFilled(inner_gl, inv),
                                           ret |-> GlReturn(inner_gl, inv)]]
             /\ inner_gl' = GlState(inner_gl, inv)
             /\ exec_log' = Append(exec_log, inv.tag)
    /\ invoked' = [invoked EXCEPT ![t] = @ + 1]
    /\ pc' = [pc EXCEPT ![t] = "called"]
    /\ UNCHANGED <<overflow_checks, dump, swVars, rleVars, pxVars, fingerprinter, mutex, call_stream,
                   lock_log, repVars, fileVars>>

\* A lock that is handed out while another thread holds it, and one that
\* is handed out though poisoned.
LockUnguarded(t) ==
    /\ pc[t] = "called"
    /\ IF mutex.poisoned
       THEN /\ pc' = [pc EXCEPT ![t] = "idle"]
            /\ UNCHANGED <<mutex, lock_log>>
       ELSE /\ pc' = [pc EXCEPT ![t] = "locked"]
            /\ mutex' = [mutex EXCEPT !.holder = t]
            /\ lock_log' = Append(lock_log, cur[t].inv.tag)
    /\ UNCHANGED <<overflow_checks, dump, swVars, rleVars, pxVars, fingerprinter, inner_gl, call_stream, cur,
                   invoked, exec_log, repVars, fileVars>>

LockIgnoringPoison(t) ==
    /\ pc[t] = "called"
    /\ mutex.holder = ""
    /\ pc' = [pc EXCEPT ![t] = "locked"]
    /\ mutex' = [mutex EXCEPT !.holder = t]
    /\ lock_log' = Append(lock_log, cur[t].inv.tag)
    /\ UNCHANGED <<overflow_checks, dump, swVars, rleVars, pxVars, fingerprinter, inner_gl, call_stream, cur,
                   invoked, exec_log, repVars, fileVars>>

\* self.call_stream.lock().unwrap(): blocks while another thread holds the
\* mutex; panics when the mutex is poisoned.
Lock(t) ==
    /\ pc[t] = "called"
    /\ mutex.holder = ""
    /\ IF mutex.poisoned
       THEN /\ pc' = [pc EXCEPT ![t] = "idle"]
            /\ UNCHANGED <<mutex, lock_log>>
       ELSE /\ pc' = [pc EXCEPT ![t] = "locked"]
            /\ mutex' = [mutex EXCEPT !.holder = t]
            /\ lock_log' = Append(lock_log, cur[t].inv.tag)
    /\ UNCHANGED <<overflow_checks, dump, swVars, rleVars, pxVars, fingerprinter, inner_gl, call_stream, cur,
                   invoked, exec_log, repVars, fileVars>>

\* $body and the flush that follows it.  A panic unwinds through the
\* guard: the mutex is released and poisoned.
Body(t) ==
    /\ pc[t] = "locked"
    /\ \E io \in IoOutcomes :
         LET body    == RecordBody(inner_gl, call_stream, cur[t].inv,
                                   cur[t].ret, io # "write_call fails")
             flushed == Flush(body, io # "flush fails")
         IN  /\ call_stream' = flushed
             /\ IF flushed.ok
                THEN /\ pc' = [pc EXCEPT ![t] = "recorded"]
                     /\ UNCHANGED mutex
                ELSE /\ pc' = [pc EXCEPT ![t] = "idle"]
                     /\ mutex' = [holder |-> "", poisoned |-> TRUE]
    /\ UNCHANGED <<overflow_checks, dump, swVars, rleVars, pxVars, fingerprinter, inner_gl, cur, invoked,
                   exec_log, lock_log, repVars, fileVars>>

\* if let Some(fingerprinter) = self.fingerprinter { fingerprinter(..) }
Fingerprint(t) ==
    /\ pc[t] = "recorded"
    /\ fingerprinter
    /\ RunsFingerprinter(cur[t].inv.variant)
    /\ \E io_ok \in BOOLEAN :
         LET st == Fingerprinter(inner_gl, call_stream, io_ok)
         IN  /\ call_stream' = st
             /\ IF st.ok
                THEN /\ pc' = [pc EXCEPT ![t] = "fingerprinted"]
                     /\ UNCHANGED mutex
                ELSE /\ pc' = [pc EXCEPT ![t] = "idle"]
                     /\ mutex' = [holder |-> "", poisoned |-> TRUE]
    /\ UNCHANGED <<overflow_checks, dump, swVars, rleVars, pxVars, fingerprinter, inner_gl, cur, invoked,
                   exec_log, lock_log, repVars, fileVars>>

\* The method returns `returned`; the guard is dropped.
Return(t) ==
    /\ \/ pc[t] = "fingerprinted"
       \/ /\ pc[t] = "recorded"
          /\ ~(fingerprinter /\ RunsFingerprinter(cur[t].inv.variant))
    /\ pc' = [pc EXCEPT ![t] = "idle"]
    /\ mutex' = [mutex EXCEPT !.holder = ""]
    /\ UNCHANGED <<overflow_checks, dump, swVars, rleVars, pxVars, fingerprinter, inner_gl, call_stream, cur,
                   invoked, exec_log, lock_log, repVars, fileVars>>

Next ==
    \E t \in Threads :
        InnerCall(t) \/ Lock(t) \/ Body(t) \/ Fingerprint(t) \/ Return(t)

Spec == Init /\ [][Next]_vars

\* ------------------------------------------------------------------------
\* Properties of Spec.

\* The Call entries of the stream, fingerprint entries aside.
CallEntries ==
    SelectSeq(call_stream.calls, LAMBDA c : c.variant # "fingerprint")

\* The position of an invocation in a log (0 when it is not in it).
Pos(log, tag) ==
    IF \E i \in 1..Len(log) : log[i] = tag
    THEN CHOOSE i \in 1..Len(log) : log[i] = tag
    ELSE 0

\* C4: the Call entries stand in the stream in the order in which their
\* invocations acquired the sink lock, one entry per invocation that got
\* through its body, each appended after its wrapped call ran; the entries
\* of one thread stand in the order of that thread's invocations.
C4_EntriesInLockOrder ==
    LET entries == CallEntries
    IN  /\ \A i \in 1..Len(entries) :
               /\ Pos(exec_log, entries[i].tag) > 0
               /\ Pos(lock_log, entries[i].tag) > 0
        /\ \A i, j \in 1..Len(entries) :
               i < j =>
                   /\ Pos(lock_log, entries[i].tag) < Pos(lock_log, entries[j].tag)
                   /\ entries[i].tag.thread = entries[j].tag.thread
                          => entries[i].tag.n < entries[j].tag.n
        /\ ~mutex.poisoned =>
               Len(entries) =
                   Len(lock_log) - Cardinality({t \in Threads : pc[t] = "locked"})

\* C4 witness: both threads have entries in the stream, one of them two.
C4_BothThreadsRecorded ==
    /\ ~mutex.poisoned
    /\ Len(CallEntries) >= 3
    /\ \A t \in Threads : \E i \in 1..Len(CallEntries) : CallEntries[i].tag.thread = t

\* C5: where the recorded order of two entries inverts the order in which
\* their wrapped calls ran, the two invocations belong to different threads
\* and the one recorded first took the lock first.
C5_InversionsFollowLockOrder ==
    \A i, j \in 1..Len(CallEntries) :
        /\ i < j
        /\ Pos(exec_log, CallEntries[i].tag) > Pos(exec_log, CallEntries[j].tag)
        => /\ CallEntries[i].tag.thread # CallEntries[j].tag.thread
           /\ Pos(lock_log, CallEntries[i].tag) < Pos(lock_log, CallEntries[j].tag)

\* C5 witness: thread A's wrapped call ran before thread B's, and B's Call
\* entry stands before A's in the stream.
C5_RecordedOrderDiffers ==
    \E i, j \in 1..Len(CallEntries) :
        /\ i < j
        /\ CallEntries[i].tag.thread = "B"
        /\ CallEntries[j].tag.thread = "A"
        /\ Pos(exec_log, CallEntries[j].tag) < Pos(exec_log, CallEntries[i].tag)

\* The invocation with this tag is no longer between its body and its
\* fingerprint.
PastFingerprint(tag) ==
    ~(cur[tag.thread].inv.tag = tag /\ pc[tag.thread] = "recorded")

\* C6: with a fingerprinter installed, every recorded call - drawing
\* method or rasterizer-only operation - is immediately followed in the
\* stream by a fingerprint entry.
C6_EveryCallFingerprinted ==
    fingerprinter /\ ~mutex.poisoned =>
        \A k \in 1..Len(call_stream.calls) :
            /\ call_stream.calls[k].variant # "fingerprint"
            /\ PastFingerprint(call_stream.calls[k].tag)
            => /\ k < Len(call_stream.calls)
               /\ call_stream.calls[k + 1].variant = "fingerprint"

\* ------------------------------------------------------------------------
\* SpecReplay: one thread records a session, the recording is loaded, and
\* replay re-issues it against a target implementation.

\* A recorded method run to completion by one thread: the general! macro
\* of the gl-replay Recorder.  gl is the wrapped implementation after the
\* call, inv the invocation after the call, ret what the call returned.
General(gl, st, inv, ret, with_fingerprinter) ==
    IF with_fingerprinter
    THEN Fingerprinter(gl, Flush(RecordBody(gl, st, inv, ret, TRUE), TRUE), TRUE)
    ELSE Flush(RecordBody(gl, st, inv, ret, TRUE), TRUE)

\* The methods a session draws its invocations from.
SessionMethods == Variants \ DataPixels

\* mem::align_of of the Alignment<Call> union: Call holds usize fields.
MaxAlignment == 8

\* Addresses the allocator may give the buffer of the loaded variable
\* section, a Vec<u8>: multiples of 16, of 8 only, of 4 only.
BaseAddresses == {4096, 4100, 4104}

BufferUnchecked(base, bytes, alignment) == TRUE

\* The assert! of read_vector on the buffer it is about to fill.
BufferAligned(base, bytes, alignment) ==
    bytes = 0 \/ base % alignment = 0

\* The session is recorded with no fingerprinter installed: the Call enum
\* gl-replay's replay reads has no fingerprint variant.
InitReplay ==
    /\ overflow_checks \in BOOLEAN
    /\ inner_gl = InitGl
    /\ call_stream = InitStream(DefaultSizeLimit)
    /\ IdleRecorder
    /\ phase = "record"
    /\ session = <<>>
    /\ recording = NoRecording
    /\ serial = 0
    /\ dispatched = <<>>
    /\ failure = NoFailure
    /\ IdleFile
    /\ IdleDump
    /\ IdleSwgl
    /\ IdleRle
    /\ IdlePixels

\* The application invokes one recorded method.
Record ==
    /\ phase = "record"
    /\ Len(session) < MaxCalls
    /\ \E variant \in SessionMethods : \E inv \in InvocationsOf(variant) :
         LET ret    == GlReturn(inner_gl, inv)
             filled == GlFilled(inner_gl, inv)
             gl     == GlState(inner_gl, inv)
         IN  /\ inner_gl' = gl
             /\ call_stream' = General(gl, call_stream, filled, ret,
                                       fingerprinter)
             /\ session' = Append(session,
                                  [inv |-> filled, ret |-> ret, gl |-> gl,
                                   mark |-> Mark(call_stream),
                                   recorded |-> call_stream'.ok])
             /\ phase' = IF call_stream'.ok THEN "record" ELSE "crashed"
    /\ UNCHANGED <<overflow_checks, dump, swVars, rleVars, pxVars, fingerprinter, mutex, pc, cur, invoked,
                   exec_log, lock_log, recording, serial, dispatched,
                   failure, fileVars>>

\* FileRecording::open on the finished session's directory; read_vector
\* asserts that the buffer it loads a non-empty section into is aligned.
OpenRecording ==
    /\ phase = "record"
    /\ \E base \in BaseAddresses :
         IF ~BufferAligned(base, Len(call_stream.variable), MaxAlignment)
         THEN /\ phase' = "panicked"
              /\ failure' = [kind |-> "assert", method |-> "read_vector",
                             serial |-> 0]
              /\ UNCHANGED recording
         ELSE /\ phase' = IF call_stream.calls = <<>> THEN "done" ELSE "replay"
              /\ recording' = [calls |-> call_stream.calls,
                               variable |-> call_stream.variable,
                               base |-> base]
              /\ UNCHANGED failure
    /\ UNCHANGED <<overflow_checks, dump, swVars, rleVars, pxVars, recVars, session, serial, dispatched,
                   fileVars>>

\* One iteration of the loop of replay(): locals.serial = serial, then
\* replay_one_with_locals on the stored call.
ReplayOne ==
    /\ phase = "replay"
    /\ serial < Len(recording.calls)
    /\ LET call == recording.calls[serial + 1]
       IN  \E outcome \in Outcomes(call.variant) :
             LET r == ReplayOneWithLocals(recording, serial, call, outcome)
             IN  /\ dispatched' = IF r.dispatch THEN Append(dispatched, r.sent)
                                  ELSE dispatched
                 /\ failure' = r.failure
                 /\ phase' = IF r.panic THEN "panicked"
                             ELSE IF serial + 1 = Len(recording.calls)
                                  THEN "done" ELSE "replay"
                 /\ serial' = IF r.panic THEN serial ELSE serial + 1
    /\ UNCHANGED <<overflow_checks, dump, swVars, rleVars, pxVars, recVars, session, recording, fileVars>>

NextReplay == Record \/ OpenRecording \/ ReplayOne

SpecReplay == InitReplay /\ [][NextReplay]_vars


\* ------------------------------------------------------------------------
\* SpecFile: FileStream and FileRecording on the files `calls` and
\* `variable` of a recording directory (src/file_stream.rs).

\* The builds of the model: one, and three that differ from it in the
\* word size, in the alignment of Call and in the size of Call.
Builds ==
    {[usize |-> 8, call_size |-> 8, call_align |-> 4],
     [usize |-> 4, call_size |-> 8, call_align |-> 4],
     [usize |-> 8, call_size |-> 8, call_align |-> 8],
     [usize |-> 8, call_size |-> 4, call_align |-> 4]}

\* The magic numbers: the ASCII bytes of "GLRR" and "SWGR" packed into a u32
\* by shift-and-or, first byte highest.
Magics == {1196184146, 1398228818}

\* mem::align_of::<GLfloat>()
AlignOfGLfloat == 4

\* file_stream::max_alignment::<Call>: the alignment of a union of Call
\* and GLfloat.
MaxAlignmentOf(build) ==
    IF build.call_align > AlignOfGLfloat THEN build.call_align
    ELSE AlignOfGLfloat

\* Header::for_call::<Call>(magic)
HeaderForCall(build, magic) ==
    [magic |-> magic, size_of_usize |-> build.usize,
     size_of_call |-> build.call_size,
     max_alignment |-> MaxAlignmentOf(build), padding |-> HeaderPadding]

\* raw::as_bytes(&header): the packed struct, little-endian host.
HeaderBytes(h) ==
    LE(h.magic, 4) \o <<h.size_of_usize, h.size_of_call, h.max_alignment,
                        h.padding>>

\* The Header read_exact fills from the first SizeOfHeader bytes of the
\* calls file.
HeaderFromBytes(bytes) ==
    [magic |-> FromLE(SubSeq(bytes, 1, 4)), size_of_usize |-> bytes[5],
     size_of_call |-> bytes[6], max_alignment |-> bytes[7],
     padding |-> bytes[8]]

\* A check that compares the padding byte as well.
HeaderCheckPadding(h, build, magic) ==
    LET expected == HeaderForCall(build, magic)
    IN  [ok |-> expected = h, expected |-> expected, actual |-> h]

\* Header::check::<Call>(magic): [ok, expected, actual]; expected and
\* actual are what the error message shows.
HeaderCheck(h, build, magic) ==
    LET expected == [HeaderForCall(build, magic) EXCEPT !.padding = h.padding]
    IN  [ok |-> expected = h, expected |-> expected, actual |-> h]

\* A reader that takes the whole file for elements, header included.
ReadVectorUnskipped(contents, skipped, size) ==
    IF Len(contents) % size # 0 THEN [ok |-> FALSE, elems |-> <<>>]
    ELSE [ok |-> TRUE,
          elems |-> [i \in 1..(Len(contents) \div size) |->
                        SubSeq(contents, size * (i - 1) + 1, size * i)]]

\* file_stream::read_vector::<T>: the rest of a file of which `skipped`
\* bytes have been read, as elements of `size` bytes: [ok, elems].  Its
\* assert on the alignment of the buffer holds for the blocks the allocator
\* hands out (see BaseAddresses).
ReadVector(contents, skipped, size) ==
    LET bytes == Len(contents) - skipped
    IN  IF bytes % size # 0 THEN [ok |-> FALSE, elems |-> <<>>]
        ELSE [ok |-> TRUE,
              elems |-> [i \in 1..(bytes \div size) |->
                            SubSeq(contents, skipped + size * (i - 1) + 1,
                                   skipped + size * i)]]

\* FileRecording::<Call>::open(dir, magic) by a reader of the given build.
FileRecordingOpen(d, build, magic) ==
    LET result == [NoOpened EXCEPT !.build = build, !.magic = magic]
        check  == HeaderCheck(HeaderFromBytes(d.calls), build, magic)
        calls  == ReadVector(d.calls, SizeOfHeader, build.call_size)
        bytes  == ReadVector(d.variable, 0, 1)
    IN  IF ~d.exists THEN [result EXCEPT !.status = "no file"]
        ELSE IF Len(d.calls) = 0 THEN [result EXCEPT !.status = "zero-length"]
        ELSE IF Len(d.calls) < SizeOfHeader
             THEN [result EXCEPT !.status = "short read"]
        ELSE IF ~check.ok
             THEN [result EXCEPT !.status = "header does not match",
                                 !.stored = Take(d.calls, SizeOfHeader),
                                 !.expected = check.expected,
                                 !.actual = check.actual]
        ELSE IF ~calls.ok
             THEN [result EXCEPT !.status = "not a whole number of Calls",
                                 !.stored = Take(d.calls, SizeOfHeader),
                                 !.header_ok = TRUE]
        ELSE [result EXCEPT !.status = "ok", !.header_ok = TRUE,
                            !.stored = Take(d.calls, SizeOfHeader),
                            !.calls = calls.elems,
                            !.variable = [i \in 1..Len(bytes.elems) |->
                                             bytes.elems[i][1]]]

\* Values of the Call type: raw::as_bytes(&call) of a build's Call.
CallValues(build) == {[i \in 1..build.call_size |-> b] : b \in {1, 2}}

\* Limits set_size_limit is called with.
SizeLimits == {2}

InitFile ==
    /\ overflow_checks \in BOOLEAN
    /\ inner_gl = InitGl
    /\ call_stream = InitStream(DefaultSizeLimit)
    /\ IdleRecorder
    /\ IdleReplay
    /\ IdleFile
    /\ IdleDump
    /\ IdleSwgl
    /\ IdleRle
    /\ IdlePixels

\* FileStream::create(dir, magic): both files are created empty and the
\* header goes into the calls file's BufWriter.
Create ==
    /\ ~fs.created
    /\ \E build \in Builds, magic \in Magics :
         fs' = [created |-> TRUE, build |-> build, magic |-> magic,
                calls_bytes |-> HeaderBytes(HeaderForCall(build, magic)),
                variable |-> <<>>, ok |-> TRUE,
                size_limit |-> DefaultSizeLimit, call_serial |-> 0]
    /\ disk' = [exists |-> TRUE, calls |-> <<>>, variable |-> <<>>]
    /\ written' = NoWritten
    /\ opened' = NoOpened
    /\ UNCHANGED <<overflow_checks, dump, swVars, rleVars, pxVars, recVars, repVars>>

\* FileStream::set_size_limit
SetSizeLimit ==
    /\ fs.created /\ fs.ok
    /\ \E limit \in SizeLimits :
         /\ fs.size_limit # limit
         /\ fs' = [fs EXCEPT !.size_limit = limit]
    /\ opened' = NoOpened
    /\ UNCHANGED <<overflow_checks, dump, swVars, rleVars, pxVars, recVars, repVars, disk, written>>

\* A write_call whose counter moves on a failed write too.
FileWriteCallCountingFailures ==
    /\ fs.created /\ fs.ok
    /\ written.ops < MaxWrites
    /\ \E call \in CallValues(fs.build), io_ok \in BOOLEAN :
         IF io_ok
         THEN /\ fs' = [fs EXCEPT !.calls_bytes = @ \o call,
                                  !.call_serial = @ + 1]
              /\ written' = [written EXCEPT
                                 !.calls = Append(@, call),
                                 !.returns = Append(@, fs.call_serial),
                                 !.ops = @ + 1, !.synced = FALSE]
         ELSE /\ fs' = [fs EXCEPT !.call_serial = @ + 1]
              /\ written' = [written EXCEPT !.ops = @ + 1]
    /\ opened' = NoOpened
    /\ UNCHANGED <<overflow_checks, dump, swVars, rleVars, pxVars, recVars, repVars, disk>>

\* CallStream::write_call: Ok(n) with the entry's bytes handed to the
\* calls file, or Err with the counter as it was.
FileWriteCall ==
    /\ fs.created /\ fs.ok
    /\ written.ops < MaxWrites
    /\ \E call \in CallValues(fs.build), io_ok \in BOOLEAN :
         IF io_ok
         THEN /\ fs' = [fs EXCEPT !.calls_bytes = @ \o call,
                                  !.call_serial = @ + 1]
              /\ written' = [written EXCEPT
                                 !.calls = Append(@, call),
                                 !.returns = Append(@, fs.call_serial),
                                 !.ops = @ + 1, !.synced = FALSE]
         ELSE /\ fs' = fs
              /\ written' = [written EXCEPT !.ops = @ + 1]
    /\ opened' = NoOpened
    /\ UNCHANGED <<overflow_checks, dump, swVars, rleVars, pxVars, recVars, repVars, disk>>

\* io::Write::write_all on the FileStream: bytes for the variable file.
FileWrite ==
    /\ fs.created /\ fs.ok
    /\ written.ops < MaxWrites
    /\ \E bytes \in {<<7>>, <<8, 9>>} : fs' = WriteAll(fs, bytes)
    /\ written' = [written EXCEPT !.ops = @ + 1, !.synced = FALSE]
    /\ opened' = NoOpened
    /\ UNCHANGED <<overflow_checks, dump, swVars, rleVars, pxVars, recVars, repVars, disk>>

\* Serialize::serialize of a slice on the FileStream: aligned writes.
FileSerialize ==
    /\ fs.created /\ fs.ok
    /\ written.ops < MaxWrites
    /\ \E elems \in SliceChoices(4) : fs' = SerializeSeq(fs, elems, 4).st
    /\ written' = [written EXCEPT !.ops = @ + 1, !.synced = FALSE]
    /\ opened' = NoOpened
    /\ UNCHANGED <<overflow_checks, dump, swVars, rleVars, pxVars, recVars, repVars, disk>>

\* io::Write::flush: both BufWriters are flushed.
FileFlush ==
    /\ fs.created /\ fs.ok
    /\ ~written.synced
    /\ disk' = [disk EXCEPT !.calls = fs.calls_bytes, !.variable = fs.variable]
    /\ written' = [written EXCEPT !.synced = TRUE]
    /\ opened' = NoOpened
    /\ UNCHANGED <<overflow_checks, dump, swVars, rleVars, pxVars, recVars, repVars, fs>>

\* A BufWriter whose buffer is full writes it out without being asked.
Spill ==
    /\ fs.created
    /\ \/ /\ disk.calls # fs.calls_bytes
          /\ disk' = [disk EXCEPT !.calls = fs.calls_bytes]
       \/ /\ disk.variable # fs.variable
          /\ disk' = [disk EXCEPT !.variable = fs.variable]
    /\ opened' = NoOpened
    /\ UNCHANGED <<overflow_checks, dump, swVars, rleVars, pxVars, recVars, repVars, fs, written>>

\* A recording directory made elsewhere is put in place: the header of
\* some build, with some padding byte, and no calls.
Import ==
    /\ ~fs.created
    /\ ~disk.exists
    /\ \E build \in Builds, magic \in Magics, padding \in {0, HeaderPadding} :
         disk' = [exists |-> TRUE,
                  calls |-> HeaderBytes([HeaderForCall(build, magic)
                                             EXCEPT !.padding = padding]),
                  variable |-> <<>>]
    /\ opened' = NoOpened
    /\ UNCHANGED <<overflow_checks, dump, swVars, rleVars, pxVars, recVars, repVars, fs, written>>

\* FileRecording::open(dir, magic) by a reader of some build.
Open ==
    /\ \E build \in Builds, magic \in Magics :
         opened' = FileRecordingOpen(disk, build, magic)
    /\ opened' # opened
    /\ UNCHANGED <<overflow_checks, dump, swVars, rleVars, pxVars, recVars, repVars, fs, disk, written>>

NextFile ==
    \/ Create
    \/ SetSizeLimit
    \/ FileWriteCall
    \/ FileWrite
    \/ FileSerialize
    \/ FileFlush
    \/ Spill
    \/ Import
    \/ Open

SpecFile == InitFile /\ [][NextFile]_vars

\* ------------------------------------------------------------------------
\* Properties of SpecFile.

StoredHeader == HeaderFromBytes(opened.stored)

\* The stored header agrees with the reader in the four checked fields.
FieldsAgree ==
    /\ StoredHeader.magic = opened.magic
    /\ StoredHeader.size_of_usize = opened.build.usize
    /\ StoredHeader.size_of_call = opened.build.call_size
    /\ StoredHeader.max_alignment = MaxAlignmentOf(opened.build)

\* C3: the header check of open succeeds exactly when the stored magic
\* number, word size, Call size and maximum alignment equal the reader's;
\* on a difference open fails with the expected and the actual header and
\* yields no recording; the padding byte has no part in the outcome.
C3_HeaderCheck ==
    opened.status \in {"header does not match", "not a whole number of Calls",
                       "ok"}
    => /\ opened.header_ok <=> FieldsAgree
       /\ ~FieldsAgree =>
              /\ opened.status = "header does not match"
              /\ opened.calls = <<>>
              /\ opened.variable = <<>>
              /\ opened.actual = StoredHeader
              /\ opened.expected.magic = opened.magic
              /\ opened.expected.size_of_usize = opened.build.usize
              /\ opened.expected.size_of_call = opened.build.call_size
              /\ opened.expected.max_alignment = MaxAlignmentOf(opened.build)

\* C3 witness: a header whose padding byte is not 'P' was accepted, all
\* four checked fields agreeing.
C3_ForeignPaddingAccepted ==
    /\ opened.status = "ok"
    /\ FieldsAgree
    /\ StoredHeader.padding # HeaderPadding

\* ------------------------------------------------------------------------
\* Properties of SpecReplay.

\* The arguments of dispatched call d equal those of session entry s.  A
\* captured image is passed by address: the bytes at the address are
\* compared, not the address.
ArgumentsEqual(d, s) ==
    /\ d.arg = s.inv.arg
    /\ d.slices = s.inv.slices
    /\ d.some = s.inv.some
    /\ d.width = s.inv.width
    /\ d.height = s.inv.height
    /\ d.depth = s.inv.depth
    /\ d.format = s.inv.format
    /\ d.ty = s.inv.ty
    /\ IF s.inv.variant \in DataTexImage
       THEN IF s.gl.pixel_unpack_buffer # 0
            THEN d.offset = s.inv.offset /\ d.elems = <<>>
            ELSE d.elems = Memory(s.inv.offset, Len(d.elems))
       ELSE d.elems = s.inv.elems

\* C1: every call the target receives during replay is the method of the
\* same name as the recorded variant, with argument values equal to those
\* the recorded invocation passed.
C1_ReplayInvokesRecordedMethod ==
    \A i \in 1..Len(dispatched) :
        LET d == dispatched[i]
            s == session[d.serial + 1]
        IN  d.method = s.inv.variant /\ ArgumentsEqual(d, s)

\* C7: the i-th call the target receives is the i-th stored call, carrying
\* serial i - 1, and once a validation mismatch is reported at serial k the
\* replay has stopped with no call of a serial beyond k dispatched.
C7_DispatchInStoredOrder ==
    /\ \A i \in 1..Len(dispatched) :
           /\ dispatched[i].serial = i - 1
           /\ dispatched[i].method = ReplayMethod(recording.calls[i].variant)
           /\ dispatched[i].arg = recording.calls[i].arg
    /\ failure.kind = "mismatch" =>
           /\ phase = "panicked"
           /\ Len(dispatched) = failure.serial + 1

\* C7 witness: a mismatch was detected while stored calls remained.
C7_MismatchBeforeEnd ==
    /\ failure.kind = "mismatch"
    /\ failure.serial + 1 < Len(recording.calls)
    /\ Len(dispatched) = failure.serial + 1

\* The id-allocating methods that are wired for replay.
GenWired == GenMethods \cap ReplayVector

\* C8: replaying a wired gen_* call reports nothing when the target
\* answers the recorded ids in the recorded order, and otherwise stops the
\* replay at once, naming the method and the serial of the call.
C8_GenIdsValidated ==
    \A i \in 1..Len(dispatched) :
        LET d == dispatched[i]
            expected == session[d.serial + 1].ret.vec
        IN  d.method \in GenWired =>
                IF d.answer.vec = expected
                THEN ~(failure.kind # "none" /\ failure.serial = d.serial)
                ELSE /\ failure = [kind |-> "mismatch", method |-> d.method,
                                   serial |-> d.serial]
                     /\ phase = "panicked"
                     /\ i = Len(dispatched)

\* C8 witness: a gen_* call that returned its recorded ids passed silently
\* and the next gen_* call, answered with a different number of ids,
\* stopped the replay.
C8_SilentThenStopped ==
    /\ Len(dispatched) = 2
    /\ dispatched[1].method \in GenWired
    /\ dispatched[1].answer.vec # <<>>
    /\ dispatched[1].answer.vec = session[1].ret.vec
    /\ dispatched[2].method \in GenWired
    /\ Len(dispatched[2].answer.vec) # Len(session[2].ret.vec)
    /\ failure.kind = "mismatch"
    /\ failure.serial = 1

\* The methods whose return value is to be validated on replay.
ValidatedMethods ==
    GenMethods \cup IsMethods
        \cup {"get_uniform_location", "get_attrib_location",
              "get_frag_data_location", "create_program", "create_shader"}

\* C9: for every id-allocating call, location query, existence query and
\* object-creation call the Call entry's returned field holds what the
\* wrapped implementation returned, and replay compares the target's answer
\* with it.
C9_ReturnValuesStoredAndCompared ==
    /\ \A i \in 1..Len(call_stream.calls) :
           LET c == call_stream.calls[i]
               s == session[i]
               v == GetSlice(call_stream.variable, 0, c.returned.val, 4)
           IN  c.variant \in ValidatedMethods =>
                   CASE c.returned.kind = "scalar" -> c.returned.val = s.ret.val
                     [] c.returned.kind = "var" -> v.ok /\ v.elems = s.ret.vec
                     [] OTHER -> FALSE
    /\ failure.kind = "unimplemented" => failure.method \notin ValidatedMethods
    /\ \A i \in 1..Len(dispatched) :
           LET d == dispatched[i]
               s == session[d.serial + 1]
           IN  d.method \in ValidatedMethods /\ d.answer # s.ret =>
                   failure = [kind |-> "mismatch", method |-> d.method,
                              serial |-> d.serial]

\* C10: every recorded tex_sub_image_2d_pbo / tex_sub_image_3d_pbo stores
\* Offset(offset) and writes nothing to the variable stream when a pixel
\* unpack buffer is bound, and otherwise stores Buf referencing exactly
\* calculate_length(w, height, depth, format, type) captured bytes, w being
\* UNPACK_ROW_LENGTH when that is not zero and the width otherwise.
C10_TexImageDataStored ==
    \A i \in 1..Len(session) :
        LET s == session[i]
            next_mark == IF i < Len(session) THEN session[i + 1].mark
                         ELSE Mark(call_stream)
            w == IF s.gl.unpack_row_length # 0 THEN s.gl.unpack_row_length
                 ELSE s.inv.width
        IN  s.inv.variant \in DataTexImage =>
                /\ s.recorded
                /\ LET c == call_stream.calls[i]
                       b == GetSlice(call_stream.variable, 0, c.data.off, 1)
                   IN  IF s.gl.pixel_unpack_buffer # 0
                       THEN /\ c.data = [kind |-> "offset", off |-> s.inv.offset]
                            /\ next_mark = s.mark
                       ELSE /\ c.data.kind = "buf"
                            /\ b.ok
                            /\ b.elems = Memory(s.inv.offset,
                                   CalculateLength(w, s.inv.height, s.inv.depth,
                                                   s.inv.format, s.inv.ty))

\* ------------------------------------------------------------------------
\* The run-length codec of rle.rs.  A slice of T (u8 or u32) is written as
\* runs and literals that alternate, starting with a run; each is a count
\* followed by one value (run) or by count values (literal).

SizeOf(elem) == IF elem = "u8" THEN 1 ELSE 4

Drop(s, n) == SubSeq(s, n + 1, Len(s))

\* leb128::write::unsigned: seven bits a byte, low group first, the high
\* bit set on every byte but the last.
Leb128WriteLowGroup(val) == <<val % 128>>

RECURSIVE Leb128Write(_)
Leb128Write(val) ==
    IF val \div 128 = 0 THEN <<val % 128>>
    ELSE <<(val % 128) + 128>> \o Leb128Write(val \div 128)

WriteCountLeb128(elem, count) == Leb128Write(count)

WriteCountUsize(elem, count) ==
    IF elem = "u8" THEN Leb128Write(count) ELSE LE(count, SizeOfUsize)

\* The count closure of write_u8 (LEB128) and of write_u32 (the count cast
\* to u32, as its four native bytes).
WriteCount(elem, count) ==
    IF elem = "u8" THEN Leb128Write(count) ELSE LE(count, 4)

ExtensionLengthZero(data, lead) == 0

\* data.iter().take_while(|&&v| v == lead).count()
ExtensionLength(data, lead) ==
    CHOOSE n \in 0..Len(data) :
        /\ \A i \in 1..n : data[i] = lead
        /\ n = Len(data) \/ data[n + 1] # lead

\* Scans that stop at a streak of k, and one that never walks the tail.
RECURSIVE ScanToStreak(_, _, _, _, _)
ScanToStreak(k, lead, run_length, literal_length, literal_tail) ==
    IF literal_tail = <<>>
    THEN [lead |-> lead, run_length |-> run_length,
          literal_length |-> literal_length]
    ELSE IF Head(literal_tail) = lead
    THEN IF run_length + 1 >= k
         THEN [lead |-> lead, run_length |-> run_length + 1,
               literal_length |-> literal_length + 1]
         ELSE ScanToStreak(k, lead, run_length + 1, literal_length + 1,
                           Tail(literal_tail))
    ELSE ScanToStreak(k, Head(literal_tail), 1, literal_length + 1,
                      Tail(literal_tail))

LiteralScanFive(lead, run_length, literal_length, literal_tail) ==
    ScanToStreak(5, lead, run_length, literal_length, literal_tail)

LiteralScanStopsShort(lead, run_length, literal_length, literal_tail) ==
    [lead |-> lead, run_length |-> run_length,
     literal_length |-> literal_length]

\* The for loop over literal_tail: the streak of equal values is tracked
\* in lead and run_length, and the scan stops when the streak reaches 4.
RECURSIVE LiteralScan(_, _, _, _)
LiteralScan(lead, run_length, literal_length, literal_tail) ==
    IF literal_tail = <<>>
    THEN [lead |-> lead, run_length |-> run_length,
          literal_length |-> literal_length]
    ELSE IF Head(literal_tail) = lead
    THEN IF run_length + 1 >= 4
         THEN [lead |-> lead, run_length |-> run_length + 1,
               literal_length |-> literal_length + 1]
         ELSE LiteralScan(lead, run_length + 1, literal_length + 1,
                          Tail(literal_tail))
    ELSE LiteralScan(Head(literal_tail), 1, literal_length + 1,
                     Tail(literal_tail))

\* One turn of write_general's loop, entered with run_length copies of
\* lead already taken off the front of data.  ok is FALSE when the
\* assert_eq! on the final literal's length fails, or when the slicing
\* past a literal and its streak (data[..literal_length] and
\* data[literal_length + run_length..]) is out of range.
RECURSIVE WriteLoop(_, _, _, _)
EmitLiteral(elem, data, scan) ==
    IF scan.run_length < 4
    THEN [ok |-> scan.literal_length = Len(data),
          bytes |-> WriteCount(elem, scan.literal_length)
                    \o SliceAsBytes(data, SizeOf(elem))]
    ELSE [ok |-> /\ scan.run_length <= scan.literal_length
                 /\ scan.literal_length <= Len(data)
                 /\ WriteLoop(elem, scan.lead, scan.run_length,
                              Drop(data, scan.literal_length)).ok,
          bytes |-> WriteCount(elem, scan.literal_length - scan.run_length)
                    \o SliceAsBytes(Take(data, scan.literal_length
                                               - scan.run_length),
                                    SizeOf(elem))
                    \o WriteLoop(elem, scan.lead, scan.run_length,
                                 Drop(data, scan.literal_length)).bytes]

EmitRun(elem, lead, count, data) ==
    IF data = <<>>
    THEN [ok |-> TRUE,
          bytes |-> WriteCount(elem, count) \o LE(lead, SizeOf(elem))]
    ELSE [ok |-> EmitLiteral(elem, data,
                     LiteralScan(Head(data), 1, 1, Tail(data))).ok,
          bytes |-> WriteCount(elem, count) \o LE(lead, SizeOf(elem))
                    \o EmitLiteral(elem, data,
                           LiteralScan(Head(data), 1, 1, Tail(data))).bytes]

WriteLoop(elem, lead, run_length, data) ==
    EmitRun(elem, lead, run_length + ExtensionLength(data, lead),
             Drop(data, ExtensionLength(data, lead)))

WriteGeneralOneLiteral(elem, data) ==
    [ok |-> TRUE,
     bytes |-> WriteCount(elem, Len(data)) \o SliceAsBytes(data, SizeOf(elem))]

\* write_general over a Vec<u8> sink, whose writes cannot fail.
WriteGeneral(elem, data) ==
    IF data = <<>> THEN [ok |-> TRUE, bytes |-> <<>>]
    ELSE WriteLoop(elem, Head(data), 1, Tail(data))

\* RleSink for Vec<u8>: write_run appends count copies of the value's
\* bytes; write_literal appends the values' bytes (SliceAsBytes).  The Vec
\* is grown with Vec::reserve, which panics when asked for more than
\* isize::MAX bytes (ExpandRun).
SinkWriteRun(value, count, size) ==
    [i \in 1..count * size |-> LE(value, size)[((i - 1) % size) + 1]]

\* leb128::read::unsigned.  The u64 result is held exactly, as its low 28
\* bits (count) and the bits above them (high: bits 28..55, then bits
\* 56..63).  End of input inside the number is an error, and so is a
\* tenth byte other than 0 or 1.
RECURSIVE Leb128Read(_, _, _, _)
Leb128Read(buf, shift, result, high) ==
    IF buf = <<>> \/ (shift = 63 /\ Head(buf) \notin {0, 1})
    THEN [ok |-> FALSE, count |-> 0, high |-> <<0, 0>>, rest |-> <<>>]
    ELSE IF Head(buf) < 128
    THEN [ok |-> TRUE,
          count |-> IF shift < 28 THEN result + Head(buf) * 2^shift
                    ELSE result,
          high |-> IF shift < 28 THEN high
                   ELSE [high EXCEPT ![shift \div 28] =
                             @ + Head(buf) * 2^(shift % 28)],
          rest |-> Tail(buf)]
    ELSE Leb128Read(Tail(buf), shift + 7,
                    IF shift < 28 THEN result + (Head(buf) - 128) * 2^shift
                    ELSE result,
                    IF shift < 28 THEN high
                    ELSE [high EXCEPT ![shift \div 28] =
                              @ + (Head(buf) - 128) * 2^(shift % 28)])

\* The count closure of read_u8 (LEB128) and of read_u32 (one element).
ReadCount(elem, buf) ==
    IF elem = "u8" THEN Leb128Read(buf, 0, 0, <<0, 0>>)
    ELSE IF buf = <<>>
    THEN [ok |-> FALSE, count |-> 0, high |-> <<0, 0>>, rest |-> <<>>]
    ELSE [ok |-> TRUE, count |-> Head(buf), high |-> <<0, 0>>,
          rest |-> Tail(buf)]

\* Err(DeserializeError): UnexpectedEof, or the LEB128 reader's error.
UnexpectedEof == [status |-> "err", bytes |-> <<>>]

\* read_general: buf is a slice of T, expanded the sink so far.
RECURSIVE ReadGeneral(_, _, _)
ExpandLiteral(elem, c, expanded) ==
    IF ~c.ok \/ c.high # <<0, 0>> \/ c.count > Len(c.rest)
    THEN UnexpectedEof
    ELSE ReadGeneral(elem, Drop(c.rest, c.count),
                     expanded \o SliceAsBytes(Take(c.rest, c.count),
                                              SizeOf(elem)))

\* A run of 2^63 values or more makes Vec::reserve panic (capacity
\* overflow); one of 2^28 or more that it can hold is not expanded here.
ExpandRun(elem, c, expanded) ==
    IF ~c.ok \/ c.rest = <<>> THEN UnexpectedEof
    ELSE IF c.high[2] >= 128 THEN [status |-> "panic", bytes |-> <<>>]
    ELSE IF c.high # <<0, 0>> THEN [status |-> "large", bytes |-> <<>>]
    ELSE IF Tail(c.rest) = <<>>
    THEN [status |-> "ok",
          bytes |-> expanded
                    \o SinkWriteRun(Head(c.rest), c.count, SizeOf(elem))]
    ELSE ExpandLiteral(elem, ReadCount(elem, Tail(c.rest)),
                       expanded
                       \o SinkWriteRun(Head(c.rest), c.count, SizeOf(elem)))

ReadGeneral(elem, buf, expanded) ==
    IF buf = <<>> THEN [status |-> "ok", bytes |-> expanded]
    ELSE ExpandRun(elem, ReadCount(elem, buf), expanded)

\* The bytes of an encoded stream as the slice of T the reader is handed:
\* whole elements only.
RECURSIVE AsElems(_, _)
AsElems(bytes, size) ==
    IF Len(bytes) < size THEN <<>>
    ELSE <<FromLE(Take(bytes, size))>> \o AsElems(Drop(bytes, size), size)

\* read_u8 / read_u32: a fresh Vec, read_general, the Vec on success.
ReadRle(elem, bytes) ==
    ReadGeneral(elem, AsElems(bytes, SizeOf(elem)), <<>>)

\* ------------------------------------------------------------------------
\* SpecRle: a slice of u8 or of u32 is built, written with write_u8 or
\* write_u32 into a Vec<u8>, and those bytes, whole or cut short, are read
\* back with read_u8 or read_u32.  A slice holds up to MaxData elements,
\* and may hold one run of LongRun equal elements, whose count takes two
\* LEB128 bytes.

RleVals(elem) == IF elem = "u8" THEN {1, 200} ELSE {1, 258}

InitRle ==
    /\ overflow_checks = FALSE
    /\ inner_gl = InitGl
    /\ call_stream = InitStream(DefaultSizeLimit)
    /\ IdleRecorder
    /\ IdleReplay
    /\ IdleFile
    /\ IdleDump
    /\ IdleSwgl
    /\ IdlePixels
    /\ rle_elem \in {"u8", "u32"}
    /\ rle_data = <<>>
    /\ rle_buf = <<>>
    /\ rle_intact = FALSE
    /\ rle_expanded = NoExpanded
    /\ rle_phase = "input"

Push ==
    /\ rle_phase = "input"
    /\ Len(rle_data) % LongRun < MaxData
    /\ \E v \in RleVals(rle_elem) : rle_data' = Append(rle_data, v)
    /\ UNCHANGED <<overflow_checks, dump, swVars, pxVars, recVars, repVars, fileVars, rle_elem,
                   rle_buf, rle_intact, rle_expanded, rle_phase>>

PushLongRun ==
    /\ rle_phase = "input"
    /\ Len(rle_data) <= MaxLead
    /\ \E v \in RleVals(rle_elem) :
           rle_data' = rle_data \o [i \in 1..LongRun |-> v]
    /\ UNCHANGED <<overflow_checks, dump, swVars, pxVars, recVars, repVars, fileVars, rle_elem,
                   rle_buf, rle_intact, rle_expanded, rle_phase>>

\* write_u8(&mut buf, data) / write_u32(&mut buf, data) on an empty Vec.
Encode ==
    /\ rle_phase = "input"
    /\ rle_buf' = WriteGeneral(rle_elem, rle_data).bytes
    /\ rle_intact' = TRUE
    /\ rle_phase' = IF WriteGeneral(rle_elem, rle_data).ok
                    THEN "encoded" ELSE "panicked"
    /\ UNCHANGED <<overflow_checks, dump, swVars, pxVars, recVars, repVars, fileVars, rle_elem,
                   rle_data, rle_expanded>>

\* The reader is handed only the first n elements of the stream.
Truncate ==
    /\ rle_phase = "encoded"
    /\ rle_intact
    /\ \E n \in 0..(Len(rle_buf) \div SizeOf(rle_elem)) - 1 :
           rle_buf' = Take(rle_buf, n * SizeOf(rle_elem))
    /\ rle_intact' = FALSE
    /\ UNCHANGED <<overflow_checks, dump, swVars, pxVars, recVars, repVars, fileVars, rle_elem,
                   rle_data, rle_expanded, rle_phase>>

\* read_u8(&mut &buf[..]) / read_u32(&mut bytes_to_u32(&buf)).
Decode ==
    /\ rle_phase = "encoded"
    /\ rle_expanded' = ReadRle(rle_elem, rle_buf)
    /\ rle_phase' = "decoded"
    /\ UNCHANGED <<overflow_checks, dump, swVars, pxVars, recVars, repVars, fileVars, rle_elem,
                   rle_data, rle_buf, rle_intact>>

\* The largest count LEB128 can carry, 2^64 - 1, in its ten bytes.
Leb128Max == [i \in 1..10 |-> IF i < 10 THEN 255 ELSE 1]

\* The reader is handed bytes no encoder wrote: a run of 2^64 - 1 values,
\* then nothing, the first byte of a count, or a literal of three with
\* one value.
Craft ==
    /\ rle_phase = "input"
    /\ rle_elem = "u8"
    /\ rle_data = <<>>
    /\ \E v \in RleVals("u8") : \E after \in {<<>>, <<128>>, <<3, v>>} :
           rle_buf' = Leb128Max \o <<v>> \o after
    /\ rle_phase' = "encoded"
    /\ UNCHANGED <<overflow_checks, dump, swVars, pxVars, recVars, repVars, fileVars, rle_elem,
                   rle_data, rle_intact, rle_expanded>>

NextRle == Push \/ PushLongRun \/ Encode \/ Truncate \/ Craft \/ Decode

SpecRle == InitRle /\ [][NextRle]_vars

\* C11: for every byte sequence d, the empty one included, write_u8
\* succeeds and read_u8 of what it wrote returns exactly d.
C11_ReadU8OfWriteU8 ==
    /\ rle_phase # "panicked"
    /\ (rle_phase = "decoded" /\ rle_intact /\ rle_elem = "u8")
           => rle_expanded = [status |-> "ok", bytes |-> rle_data]

\* A u8 slice with a run too long for a one-byte count, followed by a
\* literal, has been written and read back.
C11_LongRunReadBack ==
    /\ rle_phase = "decoded"
    /\ rle_intact
    /\ rle_elem = "u8"
    /\ Len(rle_data) > LongRun + 1
    /\ rle_data[Len(rle_data)] # rle_data[Len(rle_data) - 1]
    /\ rle_expanded.status = "ok"

C16_StreakAt(rest, i) ==
    /\ i + 3 <= Len(rest)
    /\ \A j \in i..i + 3 : rest[j] = rest[i]

C16_RunEnd(d) ==
    CHOOSE n \in 1..Len(d) :
        /\ \A i \in 1..n : d[i] = d[1]
        /\ n = Len(d) \/ d[n + 1] # d[1]

C16_LiteralEnd(rest) ==
    IF \E i \in 1..Len(rest) : C16_StreakAt(rest, i)
    THEN (CHOOSE i \in 1..Len(rest) :
              /\ C16_StreakAt(rest, i)
              /\ \A j \in 1..i - 1 : ~C16_StreakAt(rest, j)) - 1
    ELSE Len(rest)

RECURSIVE C16_Reference(_, _)
C16_AfterRun(elem, rest) ==
    IF rest = <<>> THEN <<>>
    ELSE WriteCount(elem, C16_LiteralEnd(rest))
         \o SliceAsBytes(Take(rest, C16_LiteralEnd(rest)), SizeOf(elem))
         \o C16_Reference(elem, Drop(rest, C16_LiteralEnd(rest)))

C16_Reference(elem, d) ==
    IF d = <<>> THEN <<>>
    ELSE WriteCount(elem, C16_RunEnd(d)) \o LE(d[1], SizeOf(elem))
         \o C16_AfterRun(elem, Drop(d, C16_RunEnd(d)))

\* C16: for every input the encoder's output is that of the four-step
\* reference algorithm (a maximally extended run, then a literal ending
\* just before the first streak of 4 equal elements or covering all that
\* remains, repeated with the streak as the next run), and each worked
\* example is reproduced exactly (evaluated once, before any input is built).
C16_EncoderIsReference ==
    /\ (rle_phase = "encoded" /\ rle_intact)
           => rle_buf = C16_Reference(rle_elem, rle_data)
    /\ rle_data = <<>> =>
        /\ WriteGeneral("u8", <<>>).bytes = <<>>
        /\ WriteGeneral("u8", <<1>>).bytes = <<1, 1>>
        /\ WriteGeneral("u8", <<1, 1>>).bytes = <<2, 1>>
        /\ WriteGeneral("u8", <<1, 1, 1, 2, 2, 2, 2>>).bytes = <<3, 1, 0, 4, 2>>
        /\ WriteGeneral("u8", <<1, 2, 3, 4, 5, 6>>).bytes
               = <<1, 1, 5, 2, 3, 4, 5, 6>>
        /\ WriteGeneral("u8", <<1, 2, 3, 3, 3>>).bytes = <<1, 1, 4, 2, 3, 3, 3>>
        /\ WriteGeneral("u8", <<1, 2, 3, 3, 3, 3>>).bytes = <<1, 1, 1, 2, 4, 3>>
        /\ WriteGeneral("u8", <<1, 2, 3, 3, 3, 3, 3>>).bytes
               = <<1, 1, 1, 2, 5, 3>>
        /\ WriteGeneral("u8", <<1, 2, 3, 3, 3, 3, 3, 4, 5>>).bytes
               = <<1, 1, 1, 2, 5, 3, 2, 4, 5>>
        /\ WriteGeneral("u8", <<1, 2, 3, 3, 3, 3, 4, 4, 4, 4, 5, 5, 5, 5>>).bytes
               = <<1, 1, 1, 2, 4, 3, 0, 4, 4, 0, 4, 5>>

\* A slice whose second run follows the first directly has been encoded:
\* a run of three, a literal of none, a run of four.
C16_ZeroLiteralEncoded ==
    /\ rle_phase = "encoded"
    /\ rle_intact
    /\ rle_data = <<1, 1, 1, 200, 200, 200, 200>>
    /\ rle_buf = <<3, 1, 0, 4, 200>>

\* The records of a stream under the format's grammar: a run is a count
\* and one value, a literal a count and that many values, and the two
\* alternate from a run on.  kinds lists the records, counts their counts;
\* ok is FALSE when the stream does not end at the end of a record.
RECURSIVE C17_Records(_, _, _)
C17_Record(elem, kind, c) ==
    IF ~c.ok \/ (kind = "run" /\ c.rest = <<>>)
             \/ (kind = "literal"
                 /\ (c.high # <<0, 0>> \/ c.count > Len(c.rest)))
    THEN [ok |-> FALSE, kinds |-> <<>>, counts |-> <<>>]
    ELSE [ok |-> C17_Records(elem,
                     IF kind = "run" THEN "literal" ELSE "run",
                     Drop(c.rest, IF kind = "run" THEN 1 ELSE c.count)).ok,
          kinds |-> <<kind>> \o C17_Records(elem,
                     IF kind = "run" THEN "literal" ELSE "run",
                     Drop(c.rest, IF kind = "run" THEN 1 ELSE c.count)).kinds,
          counts |-> <<c.count>> \o C17_Records(elem,
                     IF kind = "run" THEN "literal" ELSE "run",
                     Drop(c.rest, IF kind = "run" THEN 1 ELSE c.count)).counts]

C17_Records(elem, kind, buf) ==
    IF buf = <<>> THEN [ok |-> TRUE, kinds |-> <<>>, counts |-> <<>>]
    ELSE C17_Record(elem, kind, ReadCount(elem, buf))

RECURSIVE C17_Sum(_)
C17_Sum(counts) ==
    IF counts = <<>> THEN 0 ELSE Head(counts) + C17_Sum(Tail(counts))

C17_Alternates(p, data) ==
    /\ p.ok
    /\ Len(p.kinds) >= 1
    /\ \A i \in 1..Len(p.kinds) :
           p.kinds[i] = IF i % 2 = 1 THEN "run" ELSE "literal"
    /\ \A i \in 1..Len(p.kinds) : p.kinds[i] = "run" => p.counts[i] >= 1
    /\ C17_Sum(p.counts) = Len(data)

\* C17: the output for a non-empty input parses as a run followed by
\* strictly alternating literal and run records, no two runs and no two
\* literals adjacent, a literal's count possibly zero, the records covering
\* the whole input; the empty input encodes to the empty stream.
C17_RunsAndLiteralsAlternate ==
    (rle_phase = "encoded" /\ rle_intact) =>
        IF rle_data = <<>> THEN rle_buf = <<>>
        ELSE C17_Alternates(
                 C17_Records(rle_elem, "run",
                             AsElems(rle_buf, SizeOf(rle_elem))),
                 rle_data)

\* An encoding of five records, one of them a literal of none.
C17_FiveRecords ==
    /\ rle_phase = "encoded"
    /\ rle_intact
    /\ C17_Records(rle_elem, "run",
                   AsElems(rle_buf, SizeOf(rle_elem))).kinds
           = <<"run", "literal", "run", "literal", "run">>
    /\ C17_Records(rle_elem, "run",
                   AsElems(rle_buf, SizeOf(rle_elem))).counts[2] = 0

\* C18: read_u8 and read_u32 return a DeserializeError, and neither panic
\* nor return a partial result as success, when the stream ends inside a
\* count, ends after a run's count and before its value, or carries a
\* literal count larger than the number of elements left.
C18_TruncatedStreamIsAnError ==
    (rle_phase = "decoded"
     /\ ~C17_Records(rle_elem, "run",
                     AsElems(rle_buf, SizeOf(rle_elem))).ok)
        => rle_expanded = UnexpectedEof

\* ------------------------------------------------------------------------
\* The pixel-block codec of pixels.rs.  format and pixel_type are GLenum
\* values: RED 0x1903, RGBA 0x1908, UNSIGNED_BYTE 0x1401.

PixelFormats == {6403, 6408}

\* mem::align_of::<u32>()
AlignOfU32 == 4

\* Addresses a block's bytes may start at.
PixelAddresses == {8192, 8193, 8194}

\* gl::calculate_bytes_per_pixel for the formats above.
BytesPerPixel(format, pixel_type) == IF format = 6408 THEN 4 ELSE 1

ElemOf(p) == IF BytesPerPixel(p.format, p.pixel_type) = 4 THEN "u32" ELSE "u8"

\* The tail of Pixels::serialize: the compressed length, the padding of a
\* four-byte format, the compressed data.  h is the stream after the five
\* header numbers.
PixelsData(h, p, compressed) ==
    IF BytesPerPixel(p.format, p.pixel_type) * p.width * p.height * p.depth
           # Len(p.bytes)
       \/ (BytesPerPixel(p.format, p.pixel_type) = 4
           /\ Len(p.bytes) % AlignOfU32 # 0)
       \/ ~compressed.ok
    THEN [h EXCEPT !.ok = FALSE]
    ELSE IF BytesPerPixel(p.format, p.pixel_type) = 4
    THEN WriteAll(AlignFor(WriteAll(h, Leb128Write(Len(compressed.bytes))),
                           4),
                  compressed.bytes)
    ELSE WriteAll(WriteAll(h, Leb128Write(Len(compressed.bytes))),
                  compressed.bytes)

\* Pixels::serialize from the mark to the match on bytes_per_pixel: the
\* five numbers.  a is the stream aligned for u32.
PixelsHeader(a, p) ==
    WriteAll(a, Leb128Write(p.width) \o Leb128Write(p.height)
                \o Leb128Write(p.depth) \o Leb128Write(p.format)
                \o Leb128Write(p.pixel_type))

\* The arm of a four-byte format: the assert! is on the length of the
\* bytes, then slice::from_raw_parts(bytes.as_ptr() as *const u32, ..) is
\* made and read.  From an address that is not a multiple of 4 this is
\* undefined behaviour: the words are read all the same, or the build
\* traps.
ReinterpretAsWords(p, addr) ==
    IF BytesPerPixel(p.format, p.pixel_type) # 4 THEN {"none"}
    ELSE IF Len(p.bytes) % AlignOfU32 # 0 THEN {"assert"}
    ELSE IF addr % AlignOfU32 = 0 THEN {"words"}
    ELSE {"words", "trapped"}

\* Pixels::serialize from the mark on; a is the stream aligned for u32.
PixelsBody(a, p) ==
    PixelsData(PixelsHeader(a, p),
               p,
               WriteGeneral(ElemOf(p),
                            AsElems(p.bytes, SizeOf(ElemOf(p)))))

\* <Pixels as Serialize>::serialize: [st, pos], pos the mark returned.
SerializePixels(st, p) ==
    [st |-> PixelsBody(AlignFor(st, 4), p), pos |-> Mark(AlignFor(st, 4))]

\* n LEB128 numbers read one after the other: [ok, vals, rest].
RECURSIVE ReadNumbers(_, _, _)
ReadNumber(c, n, vals) ==
    IF ~c.ok THEN [ok |-> FALSE, vals |-> <<>>, rest |-> <<>>]
    ELSE ReadNumbers(c.rest, n - 1, Append(vals, c.count))

ReadNumbers(buf, n, vals) ==
    IF n = 0 THEN [ok |-> TRUE, vals |-> vals, rest |-> buf]
    ELSE ReadNumber(Leb128Read(buf, 0, 0, <<0, 0>>), n, vals)

\* The end of PixelsForm::deserialize: f the six numbers, r the expanded
\* data.  "panic" is a failed assert_eq!.
PixelsOf(f, r) ==
    IF r.status # "ok" THEN [status |-> r.status, pixels |-> NoPixels]
    ELSE IF Len(r.bytes) # BytesPerPixel(f.vals[4], f.vals[5]) * f.vals[1]
                               * f.vals[2] * f.vals[3]
    THEN [status |-> "panic", pixels |-> NoPixels]
    ELSE [status |-> "ok",
          pixels |-> [width |-> f.vals[1], height |-> f.vals[2],
                      depth |-> f.vals[3], format |-> f.vals[4],
                      pixel_type |-> f.vals[5], bytes |-> r.bytes]]

\* A four-byte format's data: compressed_length / 4 words borrowed from
\* the buffer, then read_u32 on those words.
ReadWords(b) ==
    IF ~b.ok THEN UnexpectedEof ELSE ReadGeneral("u32", b.elems, <<>>)

\* The match on bytes_per_pixel.  A one-byte format's data is read by
\* read_u8 from all that is left of the buffer.
PixelsExpand(variable, base, f) ==
    IF ~f.ok THEN [status |-> "err", pixels |-> NoPixels]
    ELSE IF f.vals[6] % BytesPerPixel(f.vals[4], f.vals[5]) # 0
    THEN [status |-> "panic", pixels |-> NoPixels]
    ELSE IF BytesPerPixel(f.vals[4], f.vals[5]) = 1
    THEN PixelsOf(f, ReadRle("u8", f.rest))
    ELSE PixelsOf(f, ReadWords(
             BorrowAlignedSlice(variable, base,
                                Len(variable) - Len(f.rest),
                                f.vals[6] \div 4, 4)))

\* Parameter<Var<PixelsForm>>::from_call: PixelsForm::deserialize on
\* &variable[offset..], variable loaded at address base.
DeserializePixels(variable, base, offset) ==
    PixelsExpand(variable, base, ReadNumbers(Drop(variable, offset), 6, <<>>))

\* ------------------------------------------------------------------------
\* SpecPixels: a Pixels block is serialized into a variable stream that
\* may already hold a payload, another payload may be written after it,
\* and PixelsForm is deserialized from the variable buffer at the offset
\* serialize returned.

PixelBlocks ==
    UNION {{[width |-> w, height |-> h, depth |-> 1, format |-> f,
             pixel_type |-> 5121,
             bytes |-> SliceAsBytes(e, BytesPerPixel(f, 5121))] :
                e \in [1..w * h ->
                          RleVals(IF f = 6408 THEN "u32" ELSE "u8")]} :
           w \in 1..MaxWidth, h \in 1..MaxHeight, f \in PixelFormats}

InitPixels ==
    /\ overflow_checks \in BOOLEAN
    /\ inner_gl = InitGl
    /\ call_stream = InitStream(DefaultSizeLimit)
    /\ IdleRecorder
    /\ IdleReplay
    /\ IdleFile
    /\ IdleDump
    /\ IdleSwgl
    /\ IdleRle
    /\ px_block \in PixelBlocks
    /\ px_mark = 0
    /\ px_appended = FALSE
    /\ px_read = NoRead
    /\ px_phase = "start"
    /\ px_addr \in PixelAddresses
    /\ px_cast = "none"

\* An earlier call's payload is in the stream before the block.
WriteBefore ==
    /\ px_phase = "start"
    /\ Mark(call_stream) = 0
    /\ \E e \in SliceChoices(1) :
           call_stream' = SerializeSeq(call_stream, e, 1).st
    /\ UNCHANGED <<overflow_checks, dump, swVars, rleVars, pxVars, fingerprinter, inner_gl,
                   mutex, pc, cur, invoked, exec_log, lock_log, repVars,
                   fileVars>>

\* pixels.serialize(&mut stream).  The match on bytes_per_pixel is reached
\* when the first align_for and the assert_eq! on the size have passed.
WritePixels ==
    /\ px_phase = "start"
    /\ px_mark' = SerializePixels(call_stream, px_block).pos
    /\ IF ~AlignFor(call_stream, AlignOfU32).ok
          \/ BytesPerPixel(px_block.format, px_block.pixel_type)
                 * px_block.width * px_block.height * px_block.depth
                 # Len(px_block.bytes)
       THEN /\ call_stream' = SerializePixels(call_stream, px_block).st
            /\ px_cast' = "none"
            /\ px_phase' = "panicked"
       ELSE \E cast \in ReinterpretAsWords(px_block, px_addr) :
              /\ px_cast' = cast
              /\ IF cast \in {"assert", "trapped"}
                 THEN /\ call_stream' =
                            [PixelsHeader(AlignFor(call_stream, AlignOfU32),
                                          px_block) EXCEPT !.ok = FALSE]
                      /\ px_phase' = IF cast = "assert" THEN "panicked"
                                     ELSE "trapped"
                 ELSE /\ call_stream' =
                            SerializePixels(call_stream, px_block).st
                      /\ px_phase' = IF call_stream'.ok THEN "written"
                                     ELSE "panicked"
    /\ UNCHANGED <<overflow_checks, dump, swVars, rleVars, px_block, px_addr, px_appended, px_read,
                   fingerprinter, inner_gl, mutex, pc, cur, invoked,
                   exec_log, lock_log, repVars, fileVars>>

\* A later call's payload is written after the block.
WriteAfter ==
    /\ px_phase = "written"
    /\ ~px_appended
    /\ \E e \in SliceChoices(1) :
           call_stream' = SerializeSeq(call_stream, e, 1).st
    /\ px_appended' = TRUE
    /\ px_phase' = IF call_stream'.ok THEN "written" ELSE "panicked"
    /\ UNCHANGED <<overflow_checks, dump, swVars, rleVars, px_block, px_addr, px_cast, px_mark, px_read,
                   fingerprinter, inner_gl, mutex, pc, cur, invoked,
                   exec_log, lock_log, repVars, fileVars>>

\* Pixels::from_call(Var at px_mark, variable), the buffer loaded at an
\* address aligned as FileRecording::open requires.
ReadPixels ==
    /\ px_phase = "written"
    /\ \E base \in BaseAddresses :
           px_read' = DeserializePixels(call_stream.variable, base, px_mark)
    /\ px_phase' = "read"
    /\ UNCHANGED <<overflow_checks, dump, swVars, rleVars, px_block, px_addr, px_cast, px_mark, px_appended,
                   recVars, repVars, fileVars>>

NextPixels == WriteBefore \/ WritePixels \/ WriteAfter \/ ReadPixels

SpecPixels == InitPixels /\ [][NextPixels]_vars

\* C13: for every Pixels block of a 1- or 4-byte-per-pixel format,
\* serializing it into a variable stream and deserializing PixelsForm at
\* the returned offset reproduces width, height, depth, format, pixel type
\* and the exact bytes, whether or not other payloads were written to the
\* stream after the block.
C13_PixelsRoundTrip ==
    px_phase = "read" => px_read = [status |-> "ok", pixels |-> px_block]

\* C14: for every supported parameter type (scalar, slice, vector, slice
\* of slices, string, optional), the value from_call reconstructs from the
\* variable buffer equals the value to_call was given while recording, and
\* an absent optional reconstructs as absent.
C14_FromCallOfToCall ==
    \A i \in 1..Len(dispatched) :
        session[dispatched[i].serial + 1].inv.variant \notin DataTexImage
            => /\ dispatched[i].arg
                      = session[dispatched[i].serial + 1].inv.arg
               /\ dispatched[i].elems
                      = session[dispatched[i].serial + 1].inv.elems
               /\ dispatched[i].slices
                      = session[dispatched[i].serial + 1].inv.slices
               /\ dispatched[i].some
                      = session[dispatched[i].serial + 1].inv.some

\* A slice of slices that is not empty and an absent optional have both
\* been recorded, loaded and handed to the target.
C14_SlicesAndAbsentReconstructed ==
    /\ Len(dispatched) = 2
    /\ session[1].inv.variant \in DataSeqSeq1
    /\ dispatched[1].slices # <<>>
    /\ dispatched[1].slices[1] # <<>>
    /\ session[2].inv.variant \in DataOptSeq1
    /\ ~session[2].inv.some
    /\ ~dispatched[2].some

\* The payload of a stored call decodes at address base as it does at
\* address 0, where addresses are stream offsets.
C15_DecodesAsWritten(rec, call) ==
    /\ DecodeArg(rec, call).ok
    /\ DecodeArg(rec, call).elems
           = DecodeArg([rec EXCEPT !.base = 0], call).elems
    /\ DecodeArg(rec, call).slices
           = DecodeArg([rec EXCEPT !.base = 0], call).slices

SwglCalls ==
    {[variant |-> "use_program", arg |-> a] : a \in 1..MaxArg}
    \cup {[variant |-> "blit_framebuffer", arg |-> 0],
          [variant |-> "composite", arg |-> 0]}

\* self.inner_gl().method(args) on the rasterizer: what is drawn depends on
\* the program in use.
SwglApply(swgl, call) ==
    IF call.variant = "use_program" THEN [swgl EXCEPT !.program = call.arg]
    ELSE [swgl EXCEPT !.textures = 2 * @ + swgl.program + 1]

\* fingerprint(swgl): DefaultHasher over get_all_texture_buffers().  Equal
\* buffers give equal digests; buffers that differ are taken to give
\* digests that differ (no 64-bit collision).
Digest(swgl) == [hash_of |-> swgl.textures]

\* What the entries of one recorded call are: the Call, and the
\* fingerprint entry when the macro runs the fingerprinter.  swgl is the
\* rasterizer after the call.
EntriesOf(swgl, call) ==
    <<[variant |-> call.variant, arg |-> call.arg, digest |-> Digest(InitSwgl),
       swgl |-> swgl]>>
    \o IF RunsFingerprinter(call.variant)
       THEN <<[variant |-> "fingerprint", arg |-> 0, digest |-> Digest(swgl),
               swgl |-> swgl]>>
       ELSE <<>>

InitSwglSpec ==
    /\ overflow_checks = FALSE
    /\ inner_gl = InitGl
    /\ call_stream = InitStream(DefaultSizeLimit)
    /\ IdleRecorder
    /\ IdleReplay
    /\ IdleFile
    /\ IdleDump
    /\ IdleRle
    /\ IdlePixels
    /\ sw_rec = NoRec
    /\ sw_run = NoRun
    /\ sw_phase = "record"

\* One recorded method on a recorder with the fingerprinter installed.
RecordSwgl ==
    /\ sw_phase = "record"
    /\ Len(sw_rec.entries) + 2 <= MaxEntries
    /\ \E call \in SwglCalls :
           sw_rec' = [swgl |-> SwglApply(sw_rec.swgl, call),
                      entries |-> sw_rec.entries
                                  \o EntriesOf(SwglApply(sw_rec.swgl, call),
                                               call)]
    /\ UNCHANGED <<overflow_checks, dump, recVars, repVars, fileVars, rleVars,
                   pxVars, sw_run, sw_phase>>

\* swgl-replay <dir>: the recording is opened, a rasterizer created.
StartReplay ==
    /\ sw_phase = "record"
    /\ sw_phase' = IF sw_rec.entries = <<>> THEN "done" ELSE "replay"
    /\ UNCHANGED <<overflow_checks, dump, recVars, repVars, fileVars, rleVars,
                   pxVars, sw_rec, sw_run>>

\* The state the replaying rasterizer is left in by a call: the state the
\* recorded one was left in, or one that differs from it in the texture
\* buffers, or outside them.
LiveOutcomes(swgl) ==
    {swgl, [swgl EXCEPT !.textures = @ + 1], [swgl EXCEPT !.program = @ + 1]}

\* The arm of a call entry: the call is made on the live rasterizer.
ReplayCall ==
    /\ sw_phase = "replay"
    /\ sw_rec.entries[sw_run.serial + 1].variant # "fingerprint"
    /\ \E live \in LiveOutcomes(
                       SwglApply(sw_run.swgl,
                                 sw_rec.entries[sw_run.serial + 1])) :
           sw_run' = [sw_run EXCEPT
                          !.swgl = live,
                          !.serial = @ + 1,
                          !.differs_at =
                              IF @ = -1 /\ live # sw_rec.entries[
                                                      sw_run.serial + 1].swgl
                              THEN sw_run.serial ELSE @]
    /\ sw_phase' = IF sw_run.serial + 1 = Len(sw_rec.entries)
                   THEN "done" ELSE "replay"
    /\ UNCHANGED <<overflow_checks, dump, recVars, repVars, fileVars, rleVars,
                   pxVars, sw_rec>>

\* The arm of a fingerprint entry: the live digest is recomputed, and the
\* replay panics, naming the serial, when it is not the recorded one.
ReplayFingerprint ==
    /\ sw_phase = "replay"
    /\ sw_rec.entries[sw_run.serial + 1].variant = "fingerprint"
    /\ IF Digest(sw_run.swgl) # sw_rec.entries[sw_run.serial + 1].digest
       THEN /\ sw_run' = [sw_run EXCEPT !.failed_at = sw_run.serial]
            /\ sw_phase' = "panicked"
       ELSE /\ sw_run' = [sw_run EXCEPT !.serial = @ + 1]
            /\ sw_phase' = IF sw_run.serial + 1 = Len(sw_rec.entries)
                           THEN "done" ELSE "replay"
    /\ UNCHANGED <<overflow_checks, dump, recVars, repVars, fileVars, rleVars,
                   pxVars, sw_rec>>

NextSwgl == RecordSwgl \/ StartReplay \/ ReplayCall \/ ReplayFingerprint

SpecSwgl == InitSwglSpec /\ [][NextSwgl]_vars

\* C19: once the replaying rasterizer's state differs from the recorded
\* run's, at call serial K+1, replay does not get past a fingerprint entry
\* of serial K+1 or later: it panics at the first such entry, naming that
\* entry's serial.
C19_DivergenceStopsAtFingerprint ==
    sw_run.differs_at # -1 =>
        /\ \A n \in sw_run.differs_at..sw_run.serial - 1 :
               sw_rec.entries[n + 1].variant # "fingerprint"
        /\ sw_phase = "panicked" => sw_run.failed_at = sw_run.serial

\* ------------------------------------------------------------------------
\* The size limit of a FileStream (SpecFile).

C24_SerialCountsSuccesses ==
    fs.created =>
        /\ fs.call_serial = Len(written.calls)
        /\ written.returns = [k \in 1..Len(written.calls) |-> k - 1]

\* Two write_calls have succeeded and a third operation did not add one.
C24_TwoWrittenOfThree ==
    /\ fs.created
    /\ written.ops = 3
    /\ written.returns = <<0, 1>>
    /\ fs.variable = <<>>

\* ------------------------------------------------------------------------
\* More properties of the encoder (SpecRle).

\* The records of an encoded stream with what each carries: a run its one
\* value, a literal its values.
RECURSIVE C28_Records(_, _, _)
C28_Record(elem, kind, c) ==
    <<[kind |-> kind, count |-> c.count,
       values |-> Take(c.rest, IF kind = "run" THEN 1 ELSE c.count)]>>
    \o C28_Records(elem, IF kind = "run" THEN "literal" ELSE "run",
                   Drop(c.rest, IF kind = "run" THEN 1 ELSE c.count))

C28_Records(elem, kind, buf) ==
    IF buf = <<>> THEN <<>>
    ELSE C28_Record(elem, kind, ReadCount(elem, buf))

C28_HasStreakOfFour(values) ==
    \E i \in 1..Len(values) - 3 :
        \A j \in i..i + 3 : values[j] = values[i]

C28_LiteralsHaveNoStreak(recs) ==
    \A i \in 1..Len(recs) :
        recs[i].kind = "literal" =>
            /\ ~C28_HasStreakOfFour(recs[i].values)
            /\ recs[i].values # <<>> =>
                   /\ recs[i].values[1] # recs[i - 1].values[1]
                   /\ i < Len(recs) =>
                          recs[i].values[Len(recs[i].values)]
                              # recs[i + 1].values[1]

\* C28: in every stream the encoder produces no literal holds four or more
\* consecutive equal elements, and a literal neither starts with the value
\* of the run before it nor ends with the value of the run after it: a
\* streak of four or more equal elements after the first run is a run.
C28_NoStreakInsideLiteral ==
    (rle_phase = "encoded" /\ rle_intact) =>
        C28_LiteralsHaveNoStreak(
            C28_Records(rle_elem, "run", AsElems(rle_buf, SizeOf(rle_elem))))

\* A literal of three equal elements went out, and a run of four after it.
C28_ThreeStayLiteralFourBecomeRun ==
    /\ rle_phase = "encoded"
    /\ rle_intact
    /\ rle_data = <<1, 200, 200, 200, 1, 1, 1, 1>>
    /\ Len(C28_Records("u8", "run", rle_buf)) = 3
    /\ C28_Records("u8", "run", rle_buf)[2].values = <<200, 200, 200>>
    /\ C28_Records("u8", "run", rle_buf)[3].count = 4

\* C29: write_u32 emits at most n + 2 words for an input of n >= 1 words,
\* and nothing for the empty input.
C29_AtMostTwoWordsMore ==
    (rle_phase = "encoded" /\ rle_intact /\ rle_elem = "u32") =>
        IF rle_data = <<>> THEN rle_buf = <<>>
        ELSE /\ Len(rle_buf) % 4 = 0
             /\ Len(rle_buf) \div 4 <= Len(rle_data) + 2

\* An input of six words went out as eight: a run of one and a literal of
\* five.
C29_EightWordsForSix ==
    /\ rle_phase = "encoded"
    /\ rle_intact
    /\ rle_elem = "u32"
    /\ Len(rle_data) = 6
    /\ Len(rle_buf) = 32

\* C30: write_general never fails its assertion that a final literal
\* spans all the remaining input, and never slices out of range when it
\* skips a literal and the streak after it.
C30_EncoderNeverPanics ==
    /\ rle_phase # "panicked"
    /\ rle_phase = "input" => WriteGeneral(rle_elem, rle_data).ok

\* An encoding that skipped a literal and its streak and ended in a final
\* literal.
C30_SkippedLiteralAndFinalLiteral ==
    /\ rle_phase = "encoded"
    /\ rle_intact
    /\ Len(C28_Records(rle_elem, "run",
                       AsElems(rle_buf, SizeOf(rle_elem)))) = 4
    /\ C28_Records(rle_elem, "run",
                   AsElems(rle_buf, SizeOf(rle_elem)))[2].count >= 1
    /\ C28_Records(rle_elem, "run",
                   AsElems(rle_buf, SizeOf(rle_elem)))[4].count >= 1

\* ------------------------------------------------------------------------
\* Padding before aligned writes (SpecFile).

\* What an aligned write of bytes at alignment align is to do to st: the
\* padding of 'P' bytes, then the bytes, the offset returned being the one
\* after the padding.
C23_PaddedWrite(st, bytes, align) ==
    /\ MarkedWriteAllAligned(st, bytes, align).st.ok
    /\ MarkedWriteAllAligned(st, bytes, align).st.variable
           = st.variable
             \o [i \in 1..PaddingLength(Mark(st), align) |-> 80]
             \o bytes
    /\ MarkedWriteAllAligned(st, bytes, align).pos
           = Mark(st) + PaddingLength(Mark(st), align)
    /\ MarkedWriteAllAligned(st, bytes, align).pos % align = 0

\* C23: at every offset of the variable stream, zero or not, an aligned
\* write of elements of T first writes (0 - offset) mod align_of(T) bytes
\* of 0x50 and returns the offset after them, a multiple of align_of(T).
C23_AlignedWritePadsWithP ==
    (fs.created /\ fs.ok /\ Len(fs.variable) + 2 * SizeOfUsize <= fs.size_limit)
        => \A align \in {1, 4, SizeOfUsize} :
               C23_PaddedWrite(fs, [i \in 1..align |-> i], align)

\* ------------------------------------------------------------------------
\* The source bytes of a four-byte format (SpecPixels).

\* C25: serializing a block of a 4-byte-per-pixel format whose bytes start
\* at an address that is not a multiple of 4 fails the assertion, the
\* bytes never being taken as 32-bit words.
C25_MisalignedBlockFailsAssertion ==
    (/\ px_phase # "start"
     /\ BytesPerPixel(px_block.format, px_block.pixel_type) = 4
     /\ px_addr % AlignOfU32 # 0
     /\ overflow_checks => px_mark = 0)
        => px_cast = "assert" /\ px_phase = "panicked"

\* ------------------------------------------------------------------------
\* SpecDump: dump-commands is run on a list of directories.  dump is
\* [build, args, next, pos, out, phase]: the build of the binary, the
\* directories named, the index of the argument being handled, the read
\* position in its calls file, the lines printed, and where main is
\* ("dirs", "calls", then "ok" for Ok(()) or "err" for an Err returned).

\* The magic number of a recording of gl_replay::Call.
GlMagic == 1196184146

\* The directories an argument may name: none, or one whose calls file is
\* empty, was written by FileStream::create for some build, or starts with
\* the eight bytes "GLRR", size_of::<Call>(), 0, 0, 0; up to two calls
\* follow a header, and possibly half a call.
DumpDirs(build) ==
    {[exists |-> FALSE, calls |-> <<>>], [exists |-> TRUE, calls |-> <<>>]}
    \cup {[exists |-> TRUE, calls |-> h \o c \o t] :
            h \in {HeaderBytes(HeaderForCall(b, GlMagic)) : b \in Builds}
                  \cup {<<71, 76, 82, 82, build.call_size, 0, 0, 0>>},
            c \in {<<>>} \cup CallValues(build)
                  \cup {x \o y : x, y \in CallValues(build)},
            t \in {<<>>, <<3>>}}

InitDump ==
    /\ overflow_checks = FALSE
    /\ inner_gl = InitGl
    /\ call_stream = InitStream(DefaultSizeLimit)
    /\ IdleRecorder
    /\ IdleReplay
    /\ IdleFile
    /\ IdleSwgl
    /\ IdleRle
    /\ IdlePixels
    /\ \E build \in Builds, n \in 1..MaxDirs :
         \E args \in [1..n -> DumpDirs(build)] :
           dump = [build |-> build, args |-> args, next |-> 1, pos |-> 0,
                   out |-> <<>>, phase |-> "dirs"]

\* The head of the for loop's body: File::open(dir/calls)?, read_exact of
\* the eight header bytes ?, the test of the magic bytes and the test of
\* header[4].  A ? that fails returns the error from main, which the
\* runtime prints as it exits.
DumpOpen ==
    /\ dump.phase = "dirs"
    /\ dump.next <= Len(dump.args)
    /\ dump' =
         IF ~dump.args[dump.next].exists
            \/ Len(dump.args[dump.next].calls) < SizeOfHeader
         THEN [dump EXCEPT
                   !.out = Append(@, [stream |-> "stderr", dir |-> dump.next,
                                      text |-> "Error"]),
                   !.phase = "err"]
         ELSE IF Take(dump.args[dump.next].calls, 4) # <<71, 76, 82, 82>>
         THEN [dump EXCEPT
                   !.out = Append(@, [stream |-> "stderr", dir |-> dump.next,
                                      text |-> "bad magic number"]),
                   !.next = @ + 1]
         ELSE IF dump.args[dump.next].calls[5] # dump.build.call_size
         THEN [dump EXCEPT
                   !.out = Append(@, [stream |-> "stderr", dir |-> dump.next,
                                      text |-> "size of Call doesn't match"]),
                   !.next = @ + 1]
         ELSE [dump EXCEPT !.phase = "calls", !.pos = SizeOfHeader]
    /\ UNCHANGED <<overflow_checks, recVars, repVars, fileVars, rleVars,
                   pxVars, swVars>>

\* One turn of the inner loop that reads a whole Call: it is printed.
DumpCall ==
    /\ dump.phase = "calls"
    /\ dump.pos + dump.build.call_size <= Len(dump.args[dump.next].calls)
    /\ dump' = [dump EXCEPT
                    !.out = Append(@, [stream |-> "stdout", dir |-> dump.next,
                                       text |-> SubSeq(
                                           dump.args[dump.next].calls,
                                           dump.pos + 1,
                                           dump.pos + dump.build.call_size)]),
                    !.pos = @ + dump.build.call_size]
    /\ UNCHANGED <<overflow_checks, recVars, repVars, fileVars, rleVars,
                   pxVars, swVars>>

\* read_exact meets the end of the file: UnexpectedEof, break.
DumpEof ==
    /\ dump.phase = "calls"
    /\ dump.pos + dump.build.call_size > Len(dump.args[dump.next].calls)
    /\ dump' = [dump EXCEPT !.phase = "dirs", !.next = @ + 1, !.pos = 0]
    /\ UNCHANGED <<overflow_checks, recVars, repVars, fileVars, rleVars,
                   pxVars, swVars>>

\* The for loop is over: Ok(()).
DumpReturn ==
    /\ dump.phase = "dirs"
    /\ dump.next > Len(dump.args)
    /\ dump' = [dump EXCEPT !.phase = "ok"]
    /\ UNCHANGED <<overflow_checks, recVars, repVars, fileVars, rleVars,
                   pxVars, swVars>>

NextDump == DumpOpen \/ DumpCall \/ DumpEof \/ DumpReturn

SpecDump == InitDump /\ [][NextDump]_vars

\* What FileRecording::open makes of the directory, for a reader of the
\* dumper's build.
C21_Opened(dir, build) ==
    FileRecordingOpen([exists |-> dir.exists, calls |-> dir.calls,
                       variable |-> <<>>], build, GlMagic)

\* The lines of one stream printed for argument i.
C21_Lines(stream, i) ==
    SelectSeq(dump.out, LAMBDA l : l.stream = stream /\ l.dir = i)

\* C21: dump-commands handles every argument in argument order: for a
\* directory that does not exist, cannot be read or has a header that does
\* not match it prints an error and goes on to the next argument, and for
\* every valid recording it prints all of the recording's calls.
C21_EveryArgumentHandled ==
    dump.phase \in {"ok", "err"} =>
        /\ \A i \in 1..Len(dump.args) :
               IF C21_Opened(dump.args[i], dump.build).status = "ok"
               THEN [k \in 1..Len(C21_Lines("stdout", i)) |->
                        C21_Lines("stdout", i)[k].text]
                        = C21_Opened(dump.args[i], dump.build).calls
               ELSE C21_Lines("stderr", i) # <<>>
        /\ \A k \in 1..Len(dump.out) - 1 :
               dump.out[k].dir <= dump.out[k + 1].dir

\* ------------------------------------------------------------------------
\* The sink lock under concurrent use (Spec).

\* C26: what one recorded invocation appends - its variable-stream bytes
\* and Call entry, then its fingerprint entry - is appended while its
\* thread holds the sink lock without a break: a thread between taking the
\* lock and returning is the holder, the entry of an invocation waiting
\* for its fingerprint is the last of the stream, and a fingerprint entry
\* stands right after the Call entry of a drawing method.
C26_AppendsUnderOneHold ==
    /\ \A t \in Threads :
           pc[t] \in {"locked", "recorded", "fingerprinted"}
               => mutex.holder = t
    /\ \A t \in Threads :
           pc[t] = "recorded" =>
               /\ call_stream.calls # <<>>
               /\ call_stream.calls[Len(call_stream.calls)].tag
                      = cur[t].inv.tag
    /\ \A k \in 1..Len(call_stream.calls) :
           call_stream.calls[k].variant = "fingerprint" =>
               /\ k > 1
               /\ call_stream.calls[k - 1].variant # "fingerprint"
               /\ RunsFingerprinter(call_stream.calls[k - 1].variant)
               /\ k < Len(call_stream.calls) =>
                      call_stream.calls[k + 1].tag
                          # call_stream.calls[k - 1].tag

\* Thread A is between its Call entry and its fingerprint entry while
\* thread B, its wrapped call made, waits for the lock.
C26_WaitingWhileFingerprintPending ==
    /\ fingerprinter
    /\ pc["A"] = "recorded"
    /\ RunsFingerprinter(cur["A"].inv.variant)
    /\ pc["B"] = "called"

\* C27: once an invocation has panicked holding the sink lock, no entry is
\* appended to the call stream any more and the lock is never held again:
\* a later invocation makes its wrapped call and panics at the lock.
C27_PoisonedSinkStaysAsItIs ==
    [][mutex.poisoned =>
           /\ call_stream' = call_stream
           /\ mutex' = mutex
           /\ \A t \in Threads :
                  /\ pc[t] \in {"idle", "called"}
                  /\ pc'[t] \in {"idle", "called"}
                  /\ (pc[t] = "called" /\ pc'[t] = "idle") =>
                         /\ Pos(exec_log, cur[t].inv.tag) > 0
                         /\ lock_log' = lock_log]_vars

\* The sink is poisoned and a thread whose wrapped call ran afterwards has
\* panicked at the lock: its invocation is in exec_log, not in lock_log.
C27_PanickedAtPoisonedLock ==
    /\ mutex.poisoned
    /\ \E t \in Threads :
           /\ pc[t] = "idle"
           /\ invoked[t] = 2
           /\ Pos(exec_log, cur[t].inv.tag) > 0
           /\ Pos(lock_log, cur[t].inv.tag) = 0
           /\ Pos(lock_log, [thread |-> t, n |-> 1]) > 0

\* ------------------------------------------------------------------------
\* Recorded variants and replay arms (SpecReplay).

\* C22: every Call variant the generic recorder can append has an arm in
\* the generic replayer: replaying a recording made by the recorder never
\* ends in a not-implemented failure.
C22_RecordedVariantsAreWired ==
    failure.kind # "unimplemented"

====
